---- MODULE Spec2Model ----
(***************************************************************************)
(* Integer square roots of fixed-width integers (crate isqrt).            *)
(*                                                                         *)
(* Every engine is a pure function of its argument.  The macros of the    *)
(* crate are generic in the integer type; here the type is the parameter  *)
(* W (its bit width) and a W-bit word is a natural number below 2^W.      *)
(* TLC's integers are 32-bit signed and TLC aborts on overflow, so a run  *)
(* that completes has computed every word exactly; widths 8 and 16 are    *)
(* covered over their whole range, width 32 on the words whose            *)
(* intermediate values stay below 2^31 (see Representable).               *)
(***************************************************************************)
EXTENDS Integers, Sequences, FiniteSets, TLC

(***************************************************************************)
(* Bounds of the input samples (the shape of the samples follows          *)
(* tests.rs: the first and last values, powers of two, perfect squares).  *)
(***************************************************************************)
LowSpan == 127
HighSpan == 127
MaxRoot == 255
TopRoots == 40
NegSpan == 40

(***************************************************************************)
(* Machine words.                                                          *)
(***************************************************************************)
Pow2(k) == 2 ^ k

\* <T>::MAX of the unsigned type of W bits (W < 31 in this model).
MAX(W) == Pow2(W) - 1

\* <T>::MAX and <T>::MIN of the signed type of W bits.
SignedMAX(W) == (Pow2(W - 2) - 1) * 2 + 1
SignedMIN(W) == (0 - SignedMAX(W)) - 1

\* Reduction of a mathematical integer to a W-bit unsigned word.  A
\* non-negative TLC integer is below 2^31, hence already a 32-bit word.
Wrap(x, W) == IF W >= 31 /\ x >= 0 THEN x ELSE x % Pow2(W)

RECURSIVE BitLen(_)
BitLen(n) == IF n = 0 THEN 0 ELSE 1 + BitLen(n \div 2)

\* u{W}::leading_zeros
leading_zeros(n, W) == W - BitLen(n)

\* u{W}::ilog2 (n > 0)
ilog2(n) == BitLen(n) - 1

RECURSIVE BitAnd(_, _)
BitAnd(a, b) ==
    IF a = 0 \/ b = 0 THEN 0
    ELSE (a % 2) * (b % 2) + 2 * BitAnd(a \div 2, b \div 2)

RECURSIVE BitOr(_, _)
BitOr(a, b) ==
    IF a = 0 THEN b
    ELSE IF b = 0 THEN a
    ELSE (IF a % 2 = 1 \/ b % 2 = 1 THEN 1 ELSE 0) + 2 * BitOr(a \div 2, b \div 2)

\* x & !1
AndNot1(x) == x - (x % 2)

\* x << k and x >> k on W-bit words (k < W)
Shl(x, k, W) == Wrap(x * Pow2(k), W)
Shr(x, k) == x \div Pow2(k)

\* wrapping +, -, * on W-bit words
AddW(a, b, W) == Wrap(a + b, W)
SubW(a, b, W) == Wrap(a - b, W)
MulW(a, b, W) == Wrap(a * b, W)

\* `x as uW` (truncation) and `x as iW` (reinterpretation of a W-bit word)
AsUnsigned(x, W) == Wrap(x, W)
AsSigned(x, W) == IF x > SignedMAX(W) THEN (x - SignedMAX(W)) - SignedMAX(W) - 2 ELSE x

(***************************************************************************)
(* original.rs: binary digit-by-digit engine.                             *)
(***************************************************************************)
\* The loop state with `one = 1 << self.ilog2()`, without `& !1`.
original_loop_init_any_bit(n) ==
    [op |-> n, res |-> 0, one |-> Pow2(ilog2(n))]

\* The loop state before the first iteration (op, res, one).
original_loop_init(n) ==
    [op |-> n, res |-> 0, one |-> Pow2(AndNot1(ilog2(n)))]

\* One iteration of `while one != 0`.
\* The loop body with `op > res + one` for `op >= res + one`: it misses the
\* bit whenever the remainder is exactly res + one.
original_loop_body_strict(st, W) ==
    IF st.op > AddW(st.res, st.one, W)
    THEN [op  |-> SubW(st.op, AddW(st.res, st.one, W), W),
          res |-> AddW(Shr(st.res, 1), st.one, W),
          one |-> Shr(st.one, 2)]
    ELSE [op  |-> st.op,
          res |-> Shr(st.res, 1),
          one |-> Shr(st.one, 2)]

\* The loop body with `op -= one` for `op -= res + one`.
original_loop_body_op_minus_one(st, W) ==
    IF st.op >= AddW(st.res, st.one, W)
    THEN [op  |-> SubW(st.op, st.one, W),
          res |-> AddW(Shr(st.res, 1), st.one, W),
          one |-> Shr(st.one, 2)]
    ELSE [op  |-> st.op,
          res |-> Shr(st.res, 1),
          one |-> Shr(st.one, 2)]

\* The loop body with `one >>= 1` for `one >>= 2`.
original_loop_body_halving(st, W) ==
    IF st.op >= AddW(st.res, st.one, W)
    THEN [op  |-> SubW(st.op, AddW(st.res, st.one, W), W),
          res |-> AddW(Shr(st.res, 1), st.one, W),
          one |-> Shr(st.one, 1)]
    ELSE [op  |-> st.op,
          res |-> Shr(st.res, 1),
          one |-> Shr(st.one, 1)]

original_loop_body(st, W) ==
    IF st.op >= AddW(st.res, st.one, W)
    THEN [op  |-> SubW(st.op, AddW(st.res, st.one, W), W),
          res |-> AddW(Shr(st.res, 1), st.one, W),
          one |-> Shr(st.one, 2)]
    ELSE [op  |-> st.op,
          res |-> Shr(st.res, 1),
          one |-> Shr(st.one, 2)]

RECURSIVE original_loop(_, _)
original_loop(st, W) ==
    IF st.one # 0 THEN original_loop(original_loop_body(st, W), W) ELSE st.res

\* UnsignedIsqrt::isqrt
original_isqrt(n, W) ==
    IF n < 2 THEN n ELSE original_loop(original_loop_init(n), W)

(***************************************************************************)
(* karatsuba.rs: recursive Karatsuba engine.                              *)
(***************************************************************************)
\* The construction loop with `remaining = 2 * sqrt` for `2 * sqrt + 1`.
RECURSIVE karatsuba_table_loop_short(_, _, _)
karatsuba_table_loop_short(n, sqrt, i) ==
    LET first_remaining == 2 * sqrt
        remaining == first_remaining - (n - i)
    IN  IF remaining > 0
        THEN <<sqrt, 2 * sqrt + 1 - remaining>>
        ELSE karatsuba_table_loop_short(n, sqrt + 1, i + first_remaining)

\* The construction loop of the table, one level of recursion per pass of the
\* outer loop: the pass for `sqrt` starts at index i with remaining = 2 * sqrt + 1
\* and its inner loop writes (sqrt, 2 * sqrt + 1 - remaining) at i, i + 1, ...
\* while remaining > 0.  The value is the pair written at index n.
RECURSIVE karatsuba_table_loop(_, _, _)
karatsuba_table_loop(n, sqrt, i) ==
    LET first_remaining == 2 * sqrt + 1
        remaining == first_remaining - (n - i)
    IN  IF remaining > 0
        THEN <<sqrt, 2 * sqrt + 1 - remaining>>
        ELSE karatsuba_table_loop(n, sqrt + 1, i + first_remaining)

ISQRT_AND_REMAINDER_8_BIT ==
    [n \in 0..255 |-> karatsuba_table_loop(n, 0, 0)]

karatsuba_sqrt_8(n) == ISQRT_AND_REMAINDER_8_BIT[n][1]

karatsuba_sqrt_with_remainder_8(n) == ISQRT_AND_REMAINDER_8_BIT[n]

\* The shift with the mask HALF_BITS - 4.
karatsuba_precondition_shift_coarse(n, W) ==
    BitAnd(leading_zeros(n, W), Shr(W, 1) - 4)

\* `leading_zeros & (HALF_BITS - 2)`
karatsuba_precondition_shift(n, W) ==
    BitAnd(leading_zeros(n, W), Shr(W, 1) - 2)

\* hi and lo of the shifted n
karatsuba_hi(n, W) == AsUnsigned(Shr(n, Shr(W, 1)), Shr(W, 1))
karatsuba_lo(n, W) == BitAnd(n, MAX(Shr(W, 1)))

\* The division with a numerator that leaves out `lo >> QUARTER_BITS`.
karatsuba_division_without_lo(s_prime, r_prime, lo, W) ==
    LET numerator == Shl(r_prime, Shr(W, 2), W)
        denominator == Shl(s_prime, 1, W)
    IN  [q |-> numerator \div denominator, u |-> numerator % denominator]

\* numerator, denominator and the division: q and u
karatsuba_division(s_prime, r_prime, lo, W) ==
    LET numerator == BitOr(Shl(r_prime, Shr(W, 2), W), Shr(lo, Shr(W, 2)))
        denominator == Shl(s_prime, 1, W)
    IN  [q |-> numerator \div denominator, u |-> numerator % denominator]

\* The candidate with the sum computed in the half-width type.
karatsuba_candidate_in_half(s_prime, q, W) ==
    AddW(Shl(s_prime, Shr(W, 2), Shr(W, 1)), q, Shr(W, 1))

\* `(s_prime << QUARTER_BITS) as $FullBitsT + q`: the shift is done in the
\* half-width type
karatsuba_candidate(s_prime, q, W) ==
    AddW(Shl(s_prime, Shr(W, 2), Shr(W, 1)), q, W)

\* `(u << QUARTER_BITS) | (lo & ((1 << QUARTER_BITS) - 1))`
karatsuba_low_part(u, lo, W) ==
    BitOr(Shl(u, Shr(W, 2), W), BitAnd(lo, Shl(1, Shr(W, 2), W) - 1))

\* The correction left out: the candidate is returned as it is.
karatsuba_correction_never(s, low_part, q_squared, W) == s

\* The correction with `<=` for `<`: it also decrements on a zero remainder.
karatsuba_correction_le(s, low_part, q_squared, W) ==
    IF low_part <= q_squared THEN SubW(s, 1, W) ELSE s

\* `if low part < q * q { s -= 1; }`
karatsuba_correction(s, low_part, q_squared, W) ==
    IF low_part < q_squared THEN SubW(s, 1, W) ELSE s

\* The correction that adds `(s << 1) + 1` to the wrapped difference.
karatsuba_correction_with_remainder_plus(s, low_part, q_squared, W) ==
    IF low_part < q_squared
    THEN <<SubW(s, 1, W),
           AddW(SubW(low_part, q_squared, W), AddW(Shl(s, 1, W), 1, W), W)>>
    ELSE <<s, SubW(low_part, q_squared, W)>>

\* `overflowing_sub`, and on overflow `r = r.wrapping_add((s << 1) - 1); s -= 1`
karatsuba_correction_with_remainder(s, low_part, q_squared, W) ==
    IF low_part < q_squared
    THEN <<SubW(s, 1, W),
           AddW(SubW(low_part, q_squared, W), SubW(Shl(s, 1, W), 1, W), W)>>
    ELSE <<s, SubW(low_part, q_squared, W)>>

\* The combination of (s', r') with lo, in karatsuba_sqrt
karatsuba_combine(s_prime, lo, qu, W) ==
    karatsuba_correction(karatsuba_candidate(s_prime, qu.q, W),
                         karatsuba_low_part(qu.u, lo, W),
                         MulW(qu.q, qu.q, W), W)

\* The combination of (s', r') with lo, in karatsuba_sqrt_with_remainder
karatsuba_combine_with_remainder(s_prime, lo, qu, W) ==
    karatsuba_correction_with_remainder(karatsuba_candidate(s_prime, qu.q, W),
                                        karatsuba_low_part(qu.u, lo, W),
                                        MulW(qu.q, qu.q, W), W)

karatsuba_step(half, lo, W) ==
    karatsuba_combine(half[1], lo, karatsuba_division(half[1], half[2], lo, W), W)

karatsuba_step_with_remainder(half, lo, W) ==
    karatsuba_combine_with_remainder(half[1], lo,
                                     karatsuba_division(half[1], half[2], lo, W), W)

\* `(s >> (precondition_shift >> 1), r >> (precondition_shift >> 1))`
karatsuba_unshift_pair(sr, precondition_shift) ==
    <<Shr(sr[1], Shr(precondition_shift, 1)), Shr(sr[2], Shr(precondition_shift, 1))>>

RECURSIVE karatsuba_sqrt_with_remainder(_, _)
\* The else branch of karatsuba_sqrt_with_remainder, from the shifted n on
karatsuba_with_remainder_of_shifted(shifted, W) ==
    karatsuba_step_with_remainder(
        karatsuba_sqrt_with_remainder(karatsuba_hi(shifted, W), Shr(W, 1)),
        karatsuba_lo(shifted, W), W)

\* karatsuba_sqrt_with_remainder_16 .. _128 (and _8 for W = 8)
karatsuba_sqrt_with_remainder(n, W) ==
    IF W = 8 THEN karatsuba_sqrt_with_remainder_8(n)
    ELSE IF leading_zeros(n, W) >= Shr(W, 1)
    THEN karatsuba_sqrt_with_remainder(AsUnsigned(n, Shr(W, 1)), Shr(W, 1))
    ELSE karatsuba_unshift_pair(
             karatsuba_with_remainder_of_shifted(
                 Shl(n, karatsuba_precondition_shift(n, W), W), W),
             karatsuba_precondition_shift(n, W))

\* The else branch of karatsuba_sqrt, from the shifted n on
karatsuba_sqrt_of_shifted(shifted, W) ==
    karatsuba_step(
        karatsuba_sqrt_with_remainder(karatsuba_hi(shifted, W), Shr(W, 1)),
        karatsuba_lo(shifted, W), W)

RECURSIVE karatsuba_sqrt(_, _)
\* karatsuba_sqrt_16 .. karatsuba_sqrt_128 (and karatsuba_sqrt_8 for W = 8)
karatsuba_sqrt(n, W) ==
    IF W = 8 THEN karatsuba_sqrt_8(n)
    ELSE IF leading_zeros(n, W) >= Shr(W, 1)
    THEN karatsuba_sqrt(AsUnsigned(n, Shr(W, 1)), Shr(W, 1))
    ELSE Shr(karatsuba_sqrt_of_shifted(
                 Shl(n, karatsuba_precondition_shift(n, W), W), W),
             Shr(karatsuba_precondition_shift(n, W), 1))

\* The functions entered by a call of karatsuba_sqrt (fn = "sqrt") or of
\* karatsuba_sqrt_with_remainder on n at width W, outermost first: the half-width
\* function of the same kind when the upper half of n is zero, the half-width
\* with-remainder function on hi otherwise.
RECURSIVE karatsuba_calls(_, _, _)
karatsuba_calls(fn, n, W) ==
    <<[fn |-> fn, bits |-> W]>> \o
    (IF W = 8 THEN <<>>
     ELSE IF leading_zeros(n, W) >= Shr(W, 1)
     THEN karatsuba_calls(fn, AsUnsigned(n, Shr(W, 1)), Shr(W, 1))
     ELSE karatsuba_calls("sqrt_with_remainder",
              karatsuba_hi(Shl(n, karatsuba_precondition_shift(n, W), W), W), Shr(W, 1)))

\* The steps of karatsuba_sqrt and of karatsuba_sqrt_with_remainder that can
\* fail: a shift by at least the width of the shifted type, a table index
\* outside the table, a division by zero.  The two functions execute the same
\* shifts, index and divisions; each predicate follows the calls down to the
\* table in the order of the code.
RECURSIVE karatsuba_shift_overflows(_, _)
karatsuba_shift_overflows(n, W) ==
    /\ W > 8
    /\ IF leading_zeros(n, W) >= Shr(W, 1)
       THEN karatsuba_shift_overflows(AsUnsigned(n, Shr(W, 1)), Shr(W, 1))
       ELSE \/ karatsuba_precondition_shift(n, W) >= W
            \/ Shr(W, 1) >= W
            \/ karatsuba_shift_overflows(
                   karatsuba_hi(Shl(n, karatsuba_precondition_shift(n, W), W), W), Shr(W, 1))
            \/ Shr(W, 2) >= Shr(W, 1)
            \/ Shr(karatsuba_precondition_shift(n, W), 1) >= W

RECURSIVE karatsuba_index_out_of_table(_, _)
karatsuba_index_out_of_table(n, W) ==
    IF W = 8 THEN n \notin DOMAIN ISQRT_AND_REMAINDER_8_BIT
    ELSE IF leading_zeros(n, W) >= Shr(W, 1)
    THEN karatsuba_index_out_of_table(AsUnsigned(n, Shr(W, 1)), Shr(W, 1))
    ELSE karatsuba_index_out_of_table(
             karatsuba_hi(Shl(n, karatsuba_precondition_shift(n, W), W), W), Shr(W, 1))

\* `let denominator = (s_prime as $FullBitsT) << 1`
karatsuba_denominator(hi, W) ==
    Shl(karatsuba_sqrt_with_remainder(hi, Shr(W, 1))[1], 1, W)

RECURSIVE karatsuba_divides_by_zero(_, _)
karatsuba_divides_by_zero(n, W) ==
    /\ W > 8
    /\ IF leading_zeros(n, W) >= Shr(W, 1)
       THEN karatsuba_divides_by_zero(AsUnsigned(n, Shr(W, 1)), Shr(W, 1))
       ELSE \/ karatsuba_divides_by_zero(
                   karatsuba_hi(Shl(n, karatsuba_precondition_shift(n, W), W), W), Shr(W, 1))
            \/ karatsuba_denominator(
                   karatsuba_hi(Shl(n, karatsuba_precondition_shift(n, W), W), W), W) = 0

karatsuba_failing_step(n, W) ==
    \/ karatsuba_shift_overflows(n, W)
    \/ karatsuba_index_out_of_table(n, W)
    \/ karatsuba_divides_by_zero(n, W)

(***************************************************************************)
(* karatsuba_2.rs: unrolled, staged Karatsuba engine.                     *)
(***************************************************************************)
\* The construction loop of the table: isqrt_n is incremented when n reaches
\* (isqrt_n + 1).pow(2); the value is isqrt_n at the write of result[n].
RECURSIVE k2_table_isqrt(_, _)
k2_table_isqrt(n, isqrt_n) ==
    IF n < (isqrt_n + 1) * (isqrt_n + 1) THEN isqrt_n
    ELSE k2_table_isqrt(n, isqrt_n + 1)

K2_ISQRT_AND_REMAINDER_8_BIT ==
    [n \in 0..255 |->
        LET isqrt_n == k2_table_isqrt(n, 0)
        IN  <<AsUnsigned(isqrt_n, 8), AsUnsigned(n - isqrt_n * isqrt_n, 8)>>]

\* first_stage!(original_bits, n)
first_stage(original_bits, n) ==
    K2_ISQRT_AND_REMAINDER_8_BIT[Shr(n, original_bits - 8)]

\* numerator, denominator and the division of middle_stage! and last_stage!
k2_division(s, r, lo, ty_bits) ==
    LET numerator == BitOr(Shl(r, Shr(ty_bits, 2), ty_bits), Shr(lo, Shr(ty_bits, 2)))
        denominator == Shl(s, 1, ty_bits)
    IN  [q |-> numerator \div denominator, u |-> numerator % denominator]

\* `($s << QUARTER_BITS) as $ty + q`: the shift is done in the type of $s,
\* which has half as many bits
k2_candidate(s, q, ty_bits) ==
    AddW(Shl(s, Shr(ty_bits, 2), Shr(ty_bits, 1)), q, ty_bits)

\* `(u << QUARTER_BITS) | (lo & LOWEST_QUARTER_1_BITS)`
k2_low_part(u, lo, ty_bits) ==
    BitOr(Shl(u, Shr(ty_bits, 2), ty_bits),
          BitAnd(lo, Shl(1, Shr(ty_bits, 2), ty_bits) - 1))

\* The middle stage's correction that adds `2 * s + 1` to the wrapped difference.
middle_stage_correction_plus(s, low_part, q_squared, ty_bits) ==
    IF low_part < q_squared
    THEN <<SubW(s, 1, ty_bits),
           AddW(SubW(low_part, q_squared, ty_bits),
                AddW(MulW(2, s, ty_bits), 1, ty_bits), ty_bits)>>
    ELSE <<s, SubW(low_part, q_squared, ty_bits)>>

\* The middle stage's correction without `s -= 1`.
middle_stage_correction_keep_s(s, low_part, q_squared, ty_bits) ==
    IF low_part < q_squared
    THEN <<s,
           AddW(SubW(low_part, q_squared, ty_bits),
                SubW(MulW(2, s, ty_bits), 1, ty_bits), ty_bits)>>
    ELSE <<s, SubW(low_part, q_squared, ty_bits)>>

\* `overflowing_sub`, and on overflow `r = r.wrapping_add(2 * s - 1); s -= 1`
middle_stage_correction(s, low_part, q_squared, ty_bits) ==
    IF low_part < q_squared
    THEN <<SubW(s, 1, ty_bits),
           AddW(SubW(low_part, q_squared, ty_bits),
                SubW(MulW(2, s, ty_bits), 1, ty_bits), ty_bits)>>
    ELSE <<s, SubW(low_part, q_squared, ty_bits)>>

middle_stage_combine(s, lo, qu, ty_bits) ==
    middle_stage_correction(k2_candidate(s, qu.q, ty_bits),
                            k2_low_part(qu.u, lo, ty_bits),
                            MulW(qu.q, qu.q, ty_bits), ty_bits)

\* The stage on n: $ty, the top ty_bits bits of the shifted input
middle_stage_of(n, sr, ty_bits) ==
    middle_stage_combine(sr[1], BitAnd(n, Shl(1, Shr(ty_bits, 1), ty_bits) - 1),
        k2_division(sr[1], sr[2], BitAnd(n, Shl(1, Shr(ty_bits, 1), ty_bits) - 1), ty_bits),
        ty_bits)

\* middle_stage!(original_bits, ty, n, s, r); ty has ty_bits bits
middle_stage(original_bits, ty_bits, n, sr) ==
    middle_stage_of(AsUnsigned(Shr(n, original_bits - ty_bits), ty_bits), sr, ty_bits)

\* The last stage's correction without the overflow test of `overflowing_mul`.
last_stage_correction_unchecked(s, n, W) ==
    IF MulW(s, s, W) > n THEN SubW(s, 1, W) ELSE s

\* The last stage's correction with `s_squared >= n` for `s_squared > n`.
last_stage_correction_ge(s, n, W) ==
    IF s * s # MulW(s, s, W) \/ MulW(s, s, W) >= n THEN SubW(s, 1, W) ELSE s

\* The last stage's correction left out.
last_stage_correction_never(s, n, W) == s

\* `let (s_squared, overflow) = s.overflowing_mul(s); if overflow || s_squared > n { s -= 1; }`
last_stage_correction(s, n, W) ==
    IF s * s # MulW(s, s, W) \/ MulW(s, s, W) > n THEN SubW(s, 1, W) ELSE s

\* last_stage!(ty, n, s, r)
last_stage(W, n, sr) ==
    last_stage_correction(
        k2_candidate(sr[1],
            k2_division(sr[1], sr[2], BitAnd(n, Shl(1, Shr(W, 1), W) - 1), W).q, W),
        n, W)

\* The chain first_stage!, middle_stage!(.., u16, ..), middle_stage!(.., u32, ..), ...
\* up to the stage working in the type of ty_bits bits.
RECURSIVE k2_stages(_, _, _)
k2_stages(original_bits, ty_bits, n) ==
    IF ty_bits = 8 THEN first_stage(original_bits, n)
    ELSE middle_stage(original_bits, ty_bits, n,
                      k2_stages(original_bits, Shr(ty_bits, 1), n))

k2_karatsuba_isqrt_8(n) == K2_ISQRT_AND_REMAINDER_8_BIT[n][1]

\* `n.leading_zeros() & EVEN_BITMASK`
k2_precondition_shift(n, W) == AndNot1(leading_zeros(n, W))

\* From `n <<= precondition_shift` to the last stage
k2_isqrt_of_shifted(shifted, W) ==
    last_stage(W, shifted, k2_stages(W, Shr(W, 1), shifted))

\* The result shifted back by the whole precondition shift.
k2_result_shift_whole(precondition_shift) == precondition_shift

\* `let result_shift = precondition_shift >> 1`
k2_result_shift(precondition_shift) == Shr(precondition_shift, 1)

\* Without the test: the stages are run on 0 as well.
k2_returns_early_never(n) == FALSE

\* `if n == 0 { return 0; }`
k2_returns_early(n) == n = 0

\* karatsuba_isqrt_16 .. karatsuba_isqrt_128 (and karatsuba_isqrt_8 for W = 8)
k2_karatsuba_isqrt(n, W) ==
    IF W = 8 THEN k2_karatsuba_isqrt_8(n)
    ELSE IF k2_returns_early(n) THEN 0
    ELSE Shr(k2_isqrt_of_shifted(Shl(n, k2_precondition_shift(n, W), W), W),
             k2_result_shift(k2_precondition_shift(n, W)))

\* The steps of karatsuba_isqrt_16 .. _128 that can fail, as for karatsuba.rs.
\* `n <<= precondition_shift`, the N_SHIFT of the stages, `s >> result_shift`
k2_shift_overflows(n, W) ==
    /\ W > 8 /\ ~k2_returns_early(n)
    /\ \/ k2_precondition_shift(n, W) >= W
       \/ W - 8 >= W
       \/ Shr(W, 2) >= Shr(W, 1)
       \/ Shr(k2_precondition_shift(n, W), 1) >= W

\* first_stage!: `ISQRT_AND_REMAINDER_8_BIT[n as usize]`
k2_index_out_of_table(n, W) ==
    IF W = 8 THEN n \notin DOMAIN K2_ISQRT_AND_REMAINDER_8_BIT
    ELSE /\ ~k2_returns_early(n)
         /\ Shr(Shl(n, k2_precondition_shift(n, W), W), W - 8)
                \notin DOMAIN K2_ISQRT_AND_REMAINDER_8_BIT

\* `let denominator = ($s as $ty) << 1` of the stage working in ty_bits bits
k2_denominator(original_bits, ty_bits, n) ==
    Shl(k2_stages(original_bits, Shr(ty_bits, 1), n)[1], 1, ty_bits)

\* A stage up to the one working in ty_bits bits divides by zero.
RECURSIVE k2_stage_divides_by_zero(_, _, _)
k2_stage_divides_by_zero(original_bits, ty_bits, n) ==
    /\ ty_bits > 8
    /\ \/ k2_stage_divides_by_zero(original_bits, Shr(ty_bits, 1), n)
       \/ k2_denominator(original_bits, ty_bits, n) = 0

k2_divides_by_zero(n, W) ==
    /\ W > 8 /\ ~k2_returns_early(n)
    /\ k2_stage_divides_by_zero(W, W, Shl(n, k2_precondition_shift(n, W), W))

k2_failing_step(n, W) ==
    \/ k2_shift_overflows(n, W)
    \/ k2_index_out_of_table(n, W)
    \/ k2_divides_by_zero(n, W)

(***************************************************************************)
(* floating_point_and_karatsuba.rs: the table of the 8-bit roots.          *)
(***************************************************************************)
\* The construction loop of ISQRT_8_BIT, one level of recursion per pass of the
\* outer loop: the pass for `sqrt` starts at index i with remaining = 2 * sqrt + 1
\* and writes sqrt at i, i + 1, ... while remaining > 0.  The value is the
\* entry written at index n.
RECURSIVE fpk_table_loop(_, _, _)
fpk_table_loop(n, sqrt, i) ==
    IF 2 * sqrt + 1 - (n - i) > 0
    THEN sqrt
    ELSE fpk_table_loop(n, sqrt + 1, i + 2 * sqrt + 1)

FPK_ISQRT_8_BIT == [n \in 0..255 |-> fpk_table_loop(n, 0, 0)]

\* The construction loop with `sqrt << 4` for `sqrt << 5`.
RECURSIVE fpk_remainder_table_loop_shift4(_, _, _)
fpk_remainder_table_loop_shift4(n, sqrt, i) ==
    IF 2 * sqrt + 1 - (n - i) > 0
    THEN BitOr(Shl(sqrt, 4, 8), n - i)
    ELSE fpk_remainder_table_loop_shift4(n, sqrt + 1, i + 2 * sqrt + 1)

\* The construction loop of ISQRT_AND_REMAINDER_8_BIT, in the same way: the
\* entry written at index n is `(sqrt << 5) | (2 * sqrt + 1 - remaining)` in u8,
\* with 2 * sqrt + 1 - remaining = n - i.
RECURSIVE fpk_remainder_table_loop(_, _, _)
fpk_remainder_table_loop(n, sqrt, i) ==
    IF 2 * sqrt + 1 - (n - i) > 0
    THEN BitOr(Shl(sqrt, 5, 8), n - i)
    ELSE fpk_remainder_table_loop(n, sqrt + 1, i + 2 * sqrt + 1)

FPK_ISQRT_AND_REMAINDER_8_BIT == [n \in 0..255 |-> fpk_remainder_table_loop(n, 0, 0)]

\* karatsuba_isqrt_with_remainder_8:
\* `s = ((n >= 64) as u8) << 3 | (table_entry >> 5)`, `r = table_entry & 0b11111`
fpk_karatsuba_isqrt_with_remainder_8(n) ==
    <<BitOr(Shl(IF n >= 64 THEN 1 ELSE 0, 3, 8), Shr(FPK_ISQRT_AND_REMAINDER_8_BIT[n], 5)),
      BitAnd(FPK_ISQRT_AND_REMAINDER_8_BIT[n], 31)>>

\* The else branch of karatsuba_isqrt_with_remainder_16, from the shifted n on;
\* from numerator to the correction its text is that of karatsuba.rs
fpk_karatsuba_with_remainder_of_shifted(shifted) ==
    karatsuba_step_with_remainder(
        fpk_karatsuba_isqrt_with_remainder_8(karatsuba_hi(shifted, 16)),
        karatsuba_lo(shifted, 16), 16)

(***************************************************************************)
(* The public operations: UnsignedIsqrt::isqrt, SignedIsqrt::checked_isqrt *)
(* and SignedIsqrt::isqrt of each module.                                  *)
(***************************************************************************)
None == [kind |-> "None", v |-> 0]
Some(x) == [kind |-> "Some", v |-> x]
Value(x) == [kind |-> "value", v |-> x]
Panic == [kind |-> "panic", v |-> 0]
Pending == [kind |-> "pending", v |-> 0]
\* The pair (s, r) returned by a with-remainder function
Pair(s, r) == [kind |-> "pair", v |-> s, r |-> r]

\* An unwrap that yields 0 for None.
unwrap_or_zero(checked) == IF checked.kind = "Some" THEN Value(checked.v) ELSE Value(0)

\* `match checked { Some(sqrt) => sqrt, None => panic!(..) }` and `.expect(..)`
unwrap(checked) == IF checked.kind = "Some" THEN Value(checked.v) ELSE Panic

\* original.rs, impl UnsignedIsqrt
original_unsigned_isqrt(self_, W) == original_isqrt(self_, W)

\* checked_isqrt with `self <= 0` for `self < 0`.
original_checked_isqrt_le(self_, W) ==
    IF self_ <= 0 THEN None
    ELSE Some(AsSigned(original_isqrt(AsUnsigned(self_, W), W), W))

\* original.rs, SignedIsqrt::checked_isqrt
original_checked_isqrt(self_, W) ==
    IF self_ < 0 THEN None
    ELSE Some(AsSigned(original_unsigned_isqrt(AsUnsigned(self_, W), W), W))

\* original.rs, SignedIsqrt::isqrt
original_signed_isqrt(self_, W) == unwrap(original_checked_isqrt(self_, W))

\* karatsuba.rs, impl UnsignedIsqrt
karatsuba_unsigned_isqrt(self_, W) == karatsuba_sqrt(self_, W)

\* karatsuba.rs, SignedIsqrt::checked_isqrt: (self >= 0).then(|| ...)
karatsuba_checked_isqrt(self_, W) ==
    IF self_ >= 0
    THEN IF karatsuba_failing_step(AsUnsigned(self_, W), W) THEN Panic
         ELSE Some(AsSigned(karatsuba_sqrt(AsUnsigned(self_, W), W), W))
    ELSE None

\* karatsuba.rs, SignedIsqrt::isqrt: checked_isqrt().expect(..)
karatsuba_signed_isqrt(self_, W) == unwrap(karatsuba_checked_isqrt(self_, W))

\* karatsuba_2.rs, impl UnsignedIsqrt
k2_unsigned_isqrt(self_, W) == k2_karatsuba_isqrt(self_, W)

\* karatsuba_2.rs, SignedIsqrt::checked_isqrt
k2_checked_isqrt(self_, W) ==
    IF self_ >= 0
    THEN IF k2_failing_step(AsUnsigned(self_, W), W) THEN Panic
         ELSE Some(AsSigned(k2_karatsuba_isqrt(AsUnsigned(self_, W), W), W))
    ELSE None

\* karatsuba_2.rs, SignedIsqrt::isqrt
k2_signed_isqrt(self_, W) == unwrap(k2_checked_isqrt(self_, W))

Modules == {"original", "karatsuba", "karatsuba_2"}

\* `use crate::$module::UnsignedIsqrt; n.isqrt()` of tests.rs
unsigned_isqrt(m, n, W) ==
    CASE m = "original"    -> original_unsigned_isqrt(n, W)
      [] m = "karatsuba"   -> karatsuba_unsigned_isqrt(n, W)
      [] m = "karatsuba_2" -> k2_unsigned_isqrt(n, W)

\* `use crate::$module::SignedIsqrt; n.checked_isqrt()`
checked_isqrt(m, n, W) ==
    CASE m = "original"    -> original_checked_isqrt(n, W)
      [] m = "karatsuba"   -> karatsuba_checked_isqrt(n, W)
      [] m = "karatsuba_2" -> k2_checked_isqrt(n, W)

\* `use crate::$module::SignedIsqrt; n.isqrt()`
signed_isqrt(m, n, W) ==
    CASE m = "original"    -> original_signed_isqrt(n, W)
      [] m = "karatsuba"   -> karatsuba_signed_isqrt(n, W)
      [] m = "karatsuba_2" -> k2_signed_isqrt(n, W)

(***************************************************************************)
(* Inputs.                                                                 *)
(***************************************************************************)
Min(a, b) == IF a < b THEN a ELSE b
Max(a, b) == IF a < b THEN b ELSE a

\* floor(sqrt(n)) by bisection, for building the samples and stating the
\* properties; independent of every engine.
RECURSIVE FloorSqrtIn(_, _, _)
FloorSqrtIn(n, lo, hi) ==
    IF lo >= hi THEN lo
    ELSE LET mid == (lo + hi + 1) \div 2
         IN  IF mid <= n \div mid THEN FloorSqrtIn(n, mid, hi)
             ELSE FloorSqrtIn(n, lo, mid - 1)

FloorSqrt(n) == FloorSqrtIn(n, 0, Min(n, 65535))

\* The words of a 32-bit type whose normalised form (shifted left by the
\* even precondition shift) is a TLC integer: bit 31 of it is clear.
Representable(n, W) == W < 31 \/ n = 0 \/ leading_zeros(n, W) % 2 = 1

\* Sample of the values 0..top of a W-bit type.
Samples(top, W) ==
    LET rt == FloorSqrt(top)
        low == 0..Min(LowSpan, top)
        high == {top - x : x \in 0..Min(HighSpan, top)}
        exps == {e \in 0..(W - 1) : e < 31 /\ (e < 30 \/ top > Pow2(30)) /\ Pow2(Min(e, 30)) - 1 <= top}
        pows == {Pow2(e) - 1 : e \in exps} \cup {Pow2(e) : e \in {x \in exps : x < 30 /\ Pow2(x) <= top}}
        roots == (0..Min(MaxRoot, rt)) \cup {rt - x : x \in 0..Min(TopRoots, rt)}
        squares == UNION {{k * k, k * k + Min(top - k * k, k), k * k + Min(top - k * k, 2 * k)} : k \in roots}
    IN  {n \in low \cup high \cup pows \cup squares : Representable(n, W)}

Widths == {8, 16, 32}

Types == [bits : Widths, signed : BOOLEAN]

\* The largest value of the type that the model holds.
Top(t) == IF t.signed \/ t.bits >= 31 THEN SignedMAX(Min(t.bits, 32)) ELSE MAX(t.bits)

Inputs(t) ==
    IF t.signed
    THEN Samples(SignedMAX(t.bits), t.bits)
         \cup {(0 - x) - 1 : x \in 0..Min(NegSpan, SignedMAX(t.bits))}
         \cup {SignedMIN(t.bits) + x : x \in 0..Min(NegSpan, SignedMAX(t.bits))}
    ELSE Samples(Top(t), t.bits)

Methods(t) == IF t.signed THEN {"checked_isqrt", "isqrt"} ELSE {"isqrt"}

\* The functions of a module below its trait methods that are called on their
\* own: karatsuba_sqrt_with_remainder_16 of karatsuba.rs (the wrapped
\* differences of karatsuba_sqrt_with_remainder_32 are not TLC integers).
InternalFunctions(t, m) ==
    IF ~t.signed /\ t.bits = 16 /\ m = "karatsuba" THEN {"sqrt_with_remainder"} ELSE {}

(***************************************************************************)
(* The state machine: one call of one public operation.                    *)
(***************************************************************************)
VARIABLES
    ty,       \* the integer type of the call: [bits, signed]
    self,     \* the argument
    module,   \* the module whose implementation is called
    method,   \* "isqrt", "checked_isqrt" or "sqrt_with_remainder"
    pc,       \* "call", "loop" (inside original.rs's while loop), "done", "panicked",
              \* "returned" (from a function below the trait methods)
    loop,     \* op, res, one of original.rs's loop
    iters,    \* iterations of the loop executed so far
    ret,      \* the returned value
    calls     \* the Karatsuba functions entered by the call, outermost first

vars == <<ty, self, module, method, pc, loop, iters, ret, calls>>

Idle == [op |-> 0, res |-> 0, one |-> 0]

Init ==
    /\ ty \in Types
    /\ self \in Inputs(ty)
    /\ module \in Modules
    /\ method \in Methods(ty) \cup InternalFunctions(ty, module)
    /\ pc = "call"
    /\ loop = Idle
    /\ iters = 0
    /\ ret = Pending
    /\ calls = <<>>

\* original.rs, UnsignedIsqrt::isqrt: `if self < 2 { return self; }`
OriginalReturnSmall ==
    /\ pc = "call" /\ ~ty.signed /\ module = "original"
    /\ self < 2
    /\ pc' = "done"
    /\ ret' = Value(self)
    /\ UNCHANGED <<ty, self, module, method, loop, iters, calls>>

\* original.rs: the initialisation of op, res and one
OriginalEnterLoop ==
    /\ pc = "call" /\ ~ty.signed /\ module = "original"
    /\ ~(self < 2)
    /\ loop' = original_loop_init(self)
    /\ pc' = "loop"
    /\ UNCHANGED <<ty, self, module, method, iters, ret, calls>>

\* original.rs: one iteration of `while one != 0`
OriginalLoopIteration ==
    /\ pc = "loop"
    /\ loop.one # 0
    /\ loop' = original_loop_body(loop, ty.bits)
    /\ iters' = iters + 1
    /\ UNCHANGED <<ty, self, module, method, pc, ret, calls>>

\* original.rs: the loop ends and res is returned
OriginalLoopExit ==
    /\ pc = "loop"
    /\ loop.one = 0
    /\ pc' = "done"
    /\ ret' = Value(loop.res)
    /\ UNCHANGED <<ty, self, module, method, loop, iters, calls>>

\* karatsuba.rs, UnsignedIsqrt::isqrt
KaratsubaIsqrt ==
    /\ pc = "call" /\ ~ty.signed /\ module = "karatsuba" /\ method = "isqrt"
    /\ ret' = IF karatsuba_failing_step(self, ty.bits) THEN Panic
              ELSE Value(karatsuba_unsigned_isqrt(self, ty.bits))
    /\ pc' = IF ret'.kind = "panic" THEN "panicked" ELSE "done"
    /\ calls' = karatsuba_calls("sqrt", self, ty.bits)
    /\ UNCHANGED <<ty, self, module, method, loop, iters>>

\* karatsuba.rs, karatsuba_sqrt_with_remainder_16
KaratsubaSqrtWithRemainder ==
    /\ pc = "call" /\ ~ty.signed /\ module = "karatsuba"
    /\ method = "sqrt_with_remainder"
    /\ ret' = IF karatsuba_failing_step(self, ty.bits) THEN Panic
              ELSE Pair(karatsuba_sqrt_with_remainder(self, ty.bits)[1],
                        karatsuba_sqrt_with_remainder(self, ty.bits)[2])
    /\ pc' = IF ret'.kind = "panic" THEN "panicked" ELSE "returned"
    /\ calls' = karatsuba_calls("sqrt_with_remainder", self, ty.bits)
    /\ UNCHANGED <<ty, self, module, method, loop, iters>>

\* karatsuba_2.rs, UnsignedIsqrt::isqrt
Karatsuba2Isqrt ==
    /\ pc = "call" /\ ~ty.signed /\ module = "karatsuba_2"
    /\ ret' = IF k2_failing_step(self, ty.bits) THEN Panic
              ELSE Value(k2_unsigned_isqrt(self, ty.bits))
    /\ pc' = IF ret'.kind = "panic" THEN "panicked" ELSE "done"
    /\ UNCHANGED <<ty, self, module, method, loop, iters, calls>>

\* SignedIsqrt::checked_isqrt of the called module
CheckedIsqrt ==
    /\ pc = "call" /\ ty.signed /\ method = "checked_isqrt"
    /\ ret' = checked_isqrt(module, self, ty.bits)
    /\ pc' = IF ret'.kind = "panic" THEN "panicked" ELSE "done"
    /\ UNCHANGED <<ty, self, module, method, loop, iters, calls>>

\* SignedIsqrt::isqrt of the called module: a value, or the panic
SignedIsqrt ==
    /\ pc = "call" /\ ty.signed /\ method = "isqrt"
    /\ ret' = signed_isqrt(module, self, ty.bits)
    /\ pc' = IF ret'.kind = "panic" THEN "panicked" ELSE "done"
    /\ UNCHANGED <<ty, self, module, method, loop, iters, calls>>

Next ==
    \/ OriginalReturnSmall
    \/ OriginalEnterLoop
    \/ OriginalLoopIteration
    \/ OriginalLoopExit
    \/ KaratsubaIsqrt
    \/ KaratsubaSqrtWithRemainder
    \/ Karatsuba2Isqrt
    \/ CheckedIsqrt
    \/ SignedIsqrt

Spec == Init /\ [][Next]_vars

(***************************************************************************)
(* floating_point.rs: the literal upper bounds of the signed results       *)
(* (`intrinsics::assume(result <= ...)`).  The 64- and 128-bit literals    *)
(* are written as their groups of three decimal digits, most significant   *)
(* group first, as in the source (3_037_000_499).                          *)
(***************************************************************************)
\* 3_037_000_500, one more than the 64-bit literal.
FP_I64_ISQRT_MAX_plus_one == <<3, 37, 0, 500>>

FP_I8_ISQRT_MAX == 11
FP_I16_ISQRT_MAX == 181
FP_I32_ISQRT_MAX == 46340
FP_I64_ISQRT_MAX == <<3, 37, 0, 499>>
FP_I128_ISQRT_MAX == <<13, 43, 817, 825, 332, 782, 212>>

\* karatsuba.rs and karatsuba_2.rs: `const ISQRT_MAX: $signed_type =
\* $karatsuba_sqrt(<$signed_type>::MAX as _) as _`
karatsuba_ISQRT_MAX(W) == AsSigned(karatsuba_sqrt(AsUnsigned(SignedMAX(W), W), W), W)
k2_ISQRT_MAX(W) == AsSigned(k2_karatsuba_isqrt(AsUnsigned(SignedMAX(W), W), W), W)

(***************************************************************************)
(* Arithmetic on naturals of any size, for the 64- and 128-bit literals:   *)
(* a number is the sequence of its base-1000 digits, least significant     *)
(* first.                                                                  *)
(***************************************************************************)
RECURSIVE Reverse(_)
Reverse(q) == IF q = <<>> THEN <<>> ELSE Reverse(Tail(q)) \o <<Head(q)>>

RECURSIVE BigAdd(_, _, _)
BigAdd(a, b, carry) ==
    IF a = <<>> /\ b = <<>> THEN (IF carry = 0 THEN <<>> ELSE <<carry>>)
    ELSE LET x == (IF a = <<>> THEN 0 ELSE Head(a)) + (IF b = <<>> THEN 0 ELSE Head(b)) + carry
         IN  <<x % 1000>> \o BigAdd(IF a = <<>> THEN a ELSE Tail(a),
                                    IF b = <<>> THEN b ELSE Tail(b), x \div 1000)

RECURSIVE BigScale(_, _, _)
BigScale(a, m, carry) ==
    IF a = <<>> THEN (IF carry = 0 THEN <<>> ELSE <<carry % 1000>> \o BigScale(a, m, carry \div 1000))
    ELSE <<(Head(a) * m + carry) % 1000>> \o BigScale(Tail(a), m, (Head(a) * m + carry) \div 1000)

RECURSIVE BigMul(_, _)
BigMul(a, b) ==
    IF b = <<>> THEN <<>>
    ELSE BigAdd(BigScale(a, Head(b), 0), <<0>> \o BigMul(a, Tail(b)), 0)

RECURSIVE BigStrip(_)
BigStrip(a) ==
    IF a # <<>> /\ a[Len(a)] = 0 THEN BigStrip(SubSeq(a, 1, Len(a) - 1)) ELSE a

RECURSIVE BigLessFromTop(_, _, _)
BigLessFromTop(a, b, i) ==
    IF i = 0 THEN FALSE
    ELSE IF a[i] # b[i] THEN a[i] < b[i]
    ELSE BigLessFromTop(a, b, i - 1)

BigLess(a, b) ==
    LET x == BigStrip(a)
        y == BigStrip(b)
    IN  IF Len(x) # Len(y) THEN Len(x) < Len(y) ELSE BigLessFromTop(x, y, Len(x))

RECURSIVE BigPow2(_)
BigPow2(k) ==
    IF k = 0 THEN <<1>>
    ELSE IF k % 2 = 1 THEN BigScale(BigPow2(k - 1), 2, 0)
    ELSE LET h == BigPow2(k \div 2) IN BigMul(h, h)

\* `groups` (most significant first) is floor(sqrt(2^(W-1) - 1)), the root of iW::MAX
BigIsRootOfSignedMax(groups, W) ==
    LET c == Reverse(groups)
        c1 == BigAdd(c, <<1>>, 0)
    IN  /\ \A i \in 1..Len(groups) : groups[i] \in 0..999
        /\ BigLess(BigMul(c, c), BigPow2(W - 1))
        /\ ~BigLess(BigMul(c1, c1), BigPow2(W - 1))

(***************************************************************************)
(* Properties.                                                             *)
(***************************************************************************)
\* r * r <= n, without forming the square
SquareAtMost(r, n) == r = 0 \/ r <= n \div r

\* r * r <= n and (r + 1) * (r + 1), checked, overflows or exceeds n.  A square
\* that overflows the W bits exceeds every W-bit n, so both cases are
\* (r + 1) * (r + 1) > n in the integers.
Bracketed(r, n) == r >= 0 /\ SquareAtMost(r, n) /\ ~SquareAtMost(r + 1, n)

\* An unsigned isqrt call of module m has returned.
UnsignedReturned(m) == pc = "done" /\ ~ty.signed /\ module = m

\* C1: the binary digit-by-digit engine returns, for every unsigned n of every
\* width, an r with r * r <= n and (r + 1) * (r + 1) > n (or overflowing).
C1_BinaryBracketing ==
    UnsignedReturned("original") => Bracketed(ret.v, self)

C1_Witness ==
    /\ UnsignedReturned("original")
    /\ ty.bits = 32 /\ self > Pow2(30) /\ iters = 16
    /\ Bracketed(ret.v, self)

\* C2: the recursive Karatsuba engine returns, for every unsigned n of every
\* width, an r with r * r <= n and (r + 1) * (r + 1) > n (or overflowing).
C2_KaratsubaBracketing ==
    UnsignedReturned("karatsuba") => Bracketed(ret.v, self)

C2_Witness ==
    /\ UnsignedReturned("karatsuba")
    /\ ty.bits = 32 /\ leading_zeros(self, 32) = 1
    /\ Bracketed(ret.v, self) /\ ret.v > 46000

\* C3: the unrolled staged Karatsuba engine returns, for every unsigned n (0
\* included), an r with r * r <= n < (r + 1) * (r + 1), an overflowing
\* (r + 1) * (r + 1) counting as exceeding n.
C3_UnrolledBracketing ==
    UnsignedReturned("karatsuba_2") => Bracketed(ret.v, self)

C3_Witness ==
    /\ UnsignedReturned("karatsuba_2")
    /\ ty.bits = 16 /\ self = MAX(16)
    /\ ret.v = 255

\* C4: checked_isqrt is None exactly for the negative arguments, and for n >= 0
\* it is Some of the unsigned engine's root of `n as unsigned`, cast to signed.
C4_CheckedIsqrt ==
    (pc = "done" /\ ty.signed /\ method = "checked_isqrt") =>
        /\ (ret = None) <=> (self < 0)
        /\ self >= 0 =>
               ret = Some(AsSigned(unsigned_isqrt(module, AsUnsigned(self, ty.bits), ty.bits),
                                   ty.bits))

C4_Witness ==
    /\ pc = "done" /\ ty.signed /\ method = "checked_isqrt"
    /\ module = "original" /\ ty.bits = 16
    /\ self = SignedMAX(16) /\ ret = Some(181)

\* C5: the signed isqrt panics for every negative argument (the minimum value
\* included) and returns no value; for n >= 0 it returns v with
\* checked_isqrt(n) = Some(v).
C5_SignedIsqrt ==
    (ty.signed /\ method = "isqrt" /\ pc # "call") =>
        IF self < 0
        THEN pc = "panicked" /\ ret.kind = "panic"
        ELSE pc = "done" /\ ret.kind = "value"
             /\ checked_isqrt(module, self, ty.bits) = Some(ret.v)

C5_Witness ==
    /\ ty.signed /\ method = "isqrt"
    /\ self = SignedMIN(ty.bits) /\ ty.bits = 32
    /\ pc = "panicked"

\* C6: for every unsigned n the binary engine, the recursive Karatsuba engine
\* and the unrolled Karatsuba engine return the same value.
C6_CrossEngineAgreement ==
    (pc = "done" /\ ~ty.signed) =>
        \A m \in Modules : ret.v = unsigned_isqrt(m, self, ty.bits)

C6_Witness ==
    /\ UnsignedReturned("original")
    /\ ty.bits = 32 /\ self > Pow2(30)
    /\ ret.v = k2_unsigned_isqrt(self, 32) /\ ret.v = karatsuba_unsigned_isqrt(self, 32)
    /\ ret.v > 32768

\* C7: the root returned by every integer engine for an unsigned W-bit n is
\* in 0 .. 2^(W/2) - 1 (below 16 at width 8): the hint
\* `assume(result < 1 << (BITS / 2))` is true where it is executed.
C7_ResultRange ==
    (pc = "done" /\ ~ty.signed) =>
        /\ 0 <= ret.v
        /\ ret.v < Pow2(ty.bits \div 2)
        /\ ty.bits = 8 => ret.v < 16

C7_Witness ==
    /\ UnsignedReturned("karatsuba")
    /\ ty.bits = 16 /\ self = MAX(16)
    /\ ret.v = Pow2(8) - 1

\* The literal bounds of floating_point.rs are floor(sqrt(iW::MAX)).
LiteralBoundsExact ==
    /\ FP_I8_ISQRT_MAX = FloorSqrt(SignedMAX(8))
    /\ FP_I16_ISQRT_MAX = FloorSqrt(SignedMAX(16))
    /\ FP_I32_ISQRT_MAX = FloorSqrt(SignedMAX(32))
    /\ BigIsRootOfSignedMax(FP_I64_ISQRT_MAX, 64)
    /\ BigIsRootOfSignedMax(FP_I128_ISQRT_MAX, 128)

\* The literal bound of the signed type of W bits (W <= 32).
LiteralBound(W) ==
    CASE W = 8 -> FP_I8_ISQRT_MAX
      [] W = 16 -> FP_I16_ISQRT_MAX
      [] W = 32 -> FP_I32_ISQRT_MAX

\* C8: for every non-negative signed n the root, cast back to the signed type,
\* is in 0 .. floor(sqrt(iW::MAX)) (the sign bit is clear), and the literals
\* 11, 181, 46_340, 3_037_000_499 and 13_043_817_825_332_782_212 are
\* floor(sqrt(iW::MAX)) for W = 8, 16, 32, 64, 128.
C8_SignedResultRange ==
    /\ LiteralBoundsExact
    /\ (pc = "done" /\ ty.signed /\ self >= 0) =>
           /\ 0 <= ret.v
           /\ ret.v <= FloorSqrt(SignedMAX(ty.bits))
           /\ ret.v <= LiteralBound(ty.bits)
           /\ ret.v <= karatsuba_ISQRT_MAX(ty.bits)
           /\ ret.v <= k2_ISQRT_MAX(ty.bits)

C8_Witness ==
    /\ pc = "done" /\ ty.signed /\ method = "checked_isqrt"
    /\ module = "karatsuba" /\ ty.bits = 32
    /\ self = SignedMAX(32) /\ ret = Some(FP_I32_ISQRT_MAX)

\* C9: isqrt(r * r) = r for every r in 0 .. 2^(W/2) - 1, at every width and in
\* every integer engine.
C9_PerfectSquareRoundTrip ==
    (pc = "done" /\ ~ty.signed) =>
        LET r == FloorSqrt(self)
        IN  (r * r = self /\ r < Pow2(ty.bits \div 2)) => ret.v = r

C9_Witness ==
    /\ UnsignedReturned("karatsuba")
    /\ ty.bits = 16 /\ self = 255 * 255
    /\ ret.v = 255

\* C10: for every k with (k + 1) * (k + 1) - 1 representable, isqrt(k * k + k) = k
\* and isqrt(k * k + 2 * k) = isqrt((k + 1) * (k + 1) - 1) = k, in the unsigned
\* and the signed operations.
C10_BetweenSquares ==
    (pc = "done" /\ self >= 0) =>
        LET k == FloorSqrt(self)
        IN  (self - k * k = k \/ self - k * k = 2 * k) => ret.v = k

C10_Witness ==
    /\ pc = "done" /\ ty.signed /\ method = "isqrt"
    /\ module = "karatsuba_2" /\ ty.bits = 16
    /\ self = 181 * 181 - 1 /\ ret = Value(180)

(***************************************************************************)
(* Words wider than a TLC integer (u32 above 2^31 - 1, u64, u128): a W-bit  *)
(* word is the sequence of its W / 8 bytes, least significant first.       *)
(***************************************************************************)
\* The bytes of a function on 1..n, as an evaluated sequence
Bytes(f) == f \o <<>>

\* TLC evaluates the argument of an operator where it is first used.  The
\* operations on words begin by comparing their operands with the empty
\* sequence, which no word is, so that an operand is evaluated at the operation
\* and not inside a nested use.

WFromInt(x, W) ==
    Bytes([i \in 1..(W \div 8) |-> IF i <= 4 THEN (x \div Pow2(8 * (i - 1))) % 256 ELSE 0])

\* The value of a word below 2^31
WToInt(x) ==
    x[1] + (IF Len(x) >= 2 THEN x[2] * 256 ELSE 0)
         + (IF Len(x) >= 3 THEN x[3] * 65536 ELSE 0)
         + (IF Len(x) >= 4 THEN x[4] * 16777216 ELSE 0)

\* <T>::MAX of the unsigned type of W bits
WMAX(W) == Bytes([i \in 1..(W \div 8) |-> 255])

WOne(W) == WFromInt(1, W)

\* `x as uW`: truncation or zero extension
WAs(x, W) ==
    IF x # <<>>
    THEN Bytes([i \in 1..(W \div 8) |-> IF i <= Len(x) THEN x[i] ELSE 0])
    ELSE x

WIsZero(x) == \A i \in 1..Len(x) : x[i] = 0

WAnd(x, y) ==
    IF x # <<>> /\ y # <<>>
    THEN Bytes([i \in 1..Len(x) |-> BitAnd(x[i], y[i])])
    ELSE x
WOr(x, y) ==
    IF x # <<>> /\ y # <<>>
    THEN Bytes([i \in 1..Len(x) |-> BitOr(x[i], y[i])])
    ELSE x

WByte(x, i) == IF i >= 1 /\ i <= Len(x) THEN x[i] ELSE 0

\* x << k and x >> k (k smaller than the width)
WShl(x, k) ==
    IF x # <<>>
    THEN Bytes([i \in 1..Len(x) |->
             ((WByte(x, i - (k \div 8)) * Pow2(k % 8)) % 256)
                 + (WByte(x, i - (k \div 8) - 1) \div Pow2(8 - (k % 8)))])
    ELSE x
WShr(x, k) ==
    IF x # <<>>
    THEN Bytes([i \in 1..Len(x) |->
             (WByte(x, i + (k \div 8)) \div Pow2(k % 8))
                 + ((WByte(x, i + (k \div 8) + 1) * Pow2(8 - (k % 8))) % 256)])
    ELSE x

\* The carry into byte i of x + y: some lower byte generates a carry and every
\* byte between propagates it.  The borrow into byte i of x - y likewise.
WCarry(x, y, i) ==
    IF \E j \in 1..(i - 1) :
           /\ x[j] + y[j] > 255
           /\ \A k \in (j + 1)..(i - 1) : x[k] + y[k] = 255
    THEN 1 ELSE 0
WBorrow(x, y, i) ==
    IF \E j \in 1..(i - 1) :
           /\ x[j] < y[j]
           /\ \A k \in (j + 1)..(i - 1) : x[k] = y[k]
    THEN 1 ELSE 0

\* wrapping_add, wrapping_sub and the overflow flag of overflowing_sub
WAdd(x, y) ==
    IF x # <<>> /\ y # <<>>
    THEN Bytes([i \in 1..Len(x) |-> (x[i] + y[i] + WCarry(x, y, i)) % 256])
    ELSE x
WSub(x, y) ==
    IF x # <<>> /\ y # <<>>
    THEN Bytes([i \in 1..Len(x) |-> (x[i] - y[i] - WBorrow(x, y, i)) % 256])
    ELSE x
WLess(x, y) == x # <<>> /\ y # <<>> /\ WBorrow(x, y, Len(x) + 1) = 1

\* Bit b of x (bit 0 is the least significant)
WBit(x, b) == (x[(b \div 8) + 1] \div Pow2(b % 8)) % 2

\* Multiplication: column k of the product is the sum of the x[i] * y[k + 1 - i];
\* WColumn sums the terms i = lo..hi
RECURSIVE WColumn(_, _, _, _, _)
WColumn(x, y, k, lo, hi) ==
    IF lo = hi THEN x[lo] * y[k + 1 - lo]
    ELSE WColumn(x, y, k, lo, (lo + hi) \div 2)
             + WColumn(x, y, k, ((lo + hi) \div 2) + 1, hi)
\* A column is below 2^24: the product is the sum of the three words made of
\* the low, middle and high bytes of the columns
WSumOfColumns(c) ==
    WAdd(WAdd(Bytes([k \in 1..Len(c) |-> c[k] % 256]),
              Bytes([k \in 1..Len(c) |-> IF k >= 2 THEN (c[k - 1] \div 256) % 256 ELSE 0])),
         Bytes([k \in 1..Len(c) |-> IF k >= 3 THEN c[k - 2] \div 65536 ELSE 0]))
\* wrapping_mul
WMul(x, y) ==
    IF x # <<>> /\ y # <<>>
    THEN WSumOfColumns(Bytes([k \in 1..Len(x) |-> WColumn(x, y, k, 1, k)]))
    ELSE x

\* The overflow flag of overflowing_mul: the product in twice the width has a
\* set bit above the width.
WMulOverflows(x, y) ==
    ~WIsZero(WShr(WMul(WAs(x, 16 * Len(x)), WAs(y, 16 * Len(x))), 8 * Len(x)))

\* Division, one bit of the numerator at a time from the top: qr is
\* <<quotient, remainder>>, the remainder and d one byte longer than the word.
WDivBit(x, d, qr, b) ==
    IF WLess(WOr(WShl(qr[2], 1), WFromInt(WBit(x, b), 8 * Len(d))), d)
    THEN <<qr[1], WOr(WShl(qr[2], 1), WFromInt(WBit(x, b), 8 * Len(d)))>>
    ELSE <<WOr(qr[1], WShl(WOne(8 * Len(x)), b)),
           WSub(WOr(WShl(qr[2], 1), WFromInt(WBit(x, b), 8 * Len(d))), d)>>
\* The bits hi down to lo: the upper half of them, then the lower half
RECURSIVE WDivBits(_, _, _, _, _)
WDivLowerBits(x, d, qr, hi, lo) ==
    IF qr # <<>> THEN WDivBits(x, d, qr, hi, lo) ELSE qr
WDivBits(x, d, qr, hi, lo) ==
    IF hi = lo THEN WDivBit(x, d, qr, hi)
    ELSE WDivLowerBits(x, d, WDivBits(x, d, qr, hi, ((lo + hi) \div 2) + 1),
                       (lo + hi) \div 2, lo)
\* <<x / d, x % d>> for d # 0
WDivMod(x, d) ==
    IF x # <<>> /\ d # <<>>
    THEN WDivBits(x, WAs(d, 8 * Len(x) + 8),
                  <<WFromInt(0, 8 * Len(x)), WFromInt(0, 8 * Len(x) + 8)>>,
                  8 * Len(x) - 1, 0)
    ELSE <<x, d>>
WQuotient(qr) == qr[1]
WRemainder(qr) == WAs(qr[2], 8 * Len(qr[1]))

\* leading_zeros
WTopByte(x) == CHOOSE i \in 1..Len(x) : x[i] # 0 /\ \A j \in (i + 1)..Len(x) : x[j] = 0
WBitLen(x) == IF WIsZero(x) THEN 0 ELSE 8 * (WTopByte(x) - 1) + BitLen(x[WTopByte(x)])
Wleading_zeros(x) == 8 * Len(x) - WBitLen(x)

(***************************************************************************)
(* The three engines on wide words.  The code is the code modelled above   *)
(* (the macros are instantiated at every width); the operations are those  *)
(* of the wide words.  At 16 bits and below the values are TLC integers    *)
(* and the definitions above are used.                                     *)
(***************************************************************************)
\* original.rs: one pass of `while one != 0 { .. }` on st = <<op, res, one>>;
\* once one is 0 the loop has ended and st stays
wide_original_loop_pass(st) ==
    IF WIsZero(st[3]) THEN st
    ELSE IF ~WLess(st[1], WAdd(st[2], st[3]))
    THEN <<WSub(st[1], WAdd(st[2], st[3])), WAdd(WShr(st[2], 1), st[3]), WShr(st[3], 2)>>
    ELSE <<st[1], WShr(st[2], 1), WShr(st[3], 2)>>

\* `let mut one = 1 << (self.ilog2() & !1)`
wide_original_one(n) == WShl(WOne(8 * Len(n)), AndNot1(WBitLen(n) - 1))

\* k passes of the loop: half of them, then the others
RECURSIVE wide_original_loop(_, _)
wide_original_loop_rest(st, k) ==
    IF st # <<>>
    THEN wide_original_loop(st, k)
    ELSE st
wide_original_loop(st, k) ==
    IF k = 1 THEN wide_original_loop_pass(st)
    ELSE wide_original_loop_rest(wide_original_loop(st, k \div 2), k - (k \div 2))

\* original.rs, UnsignedIsqrt::isqrt: `one` is shifted right by two at every pass,
\* so the loop has ended after W / 2 passes
wide_original_isqrt(n) ==
    IF WLess(n, WFromInt(2, 8 * Len(n))) THEN n
    ELSE wide_original_loop(
             <<n, WFromInt(0, 8 * Len(n)), wide_original_one(n)>>,
             4 * Len(n))[2]

\* karatsuba.rs: `let lo = n & (<$HalfBitsT>::MAX as $FullBitsT)`
wide_karatsuba_lo(n, W) == WAnd(n, WAs(WMAX(Shr(W, 1)), W))

\* numerator / denominator and numerator % denominator, as <<q, u>>
wide_karatsuba_division(lo, s_prime, r_prime, W) ==
    WDivMod(WOr(WShl(WAs(r_prime, W), Shr(W, 2)), WShr(lo, Shr(W, 2))),
            WShl(WAs(s_prime, W), 1))

\* `let mut s = (s_prime << QUARTER_BITS) as $FullBitsT + q`
wide_karatsuba_candidate(s_prime, q, W) ==
    WAdd(WAs(WShl(s_prime, Shr(W, 2)), W), q)

\* `(u << QUARTER_BITS) | (lo & ((1 << QUARTER_BITS) - 1))`
wide_karatsuba_low_part(u, lo, W) ==
    WOr(WShl(u, Shr(W, 2)), WAnd(lo, WSub(WShl(WOne(W), Shr(W, 2)), WOne(W))))

\* From the candidate s on: overflowing_sub, the correction of r and of s
wide_karatsuba_correction_with_remainder(s, low_part, q_squared, W) ==
    IF WLess(low_part, q_squared)
    THEN <<WSub(s, WOne(W)),
           WAdd(WSub(low_part, q_squared), WSub(WShl(s, 1), WOne(W)))>>
    ELSE <<s, WSub(low_part, q_squared)>>

\* From the candidate s on in karatsuba_sqrt: `if overflow { s -= 1; }`
wide_karatsuba_correction(s, low_part, q_squared, W) ==
    IF WLess(low_part, q_squared) THEN WSub(s, WOne(W)) ELSE s

\* The steps after the division, given its result qu
wide_karatsuba_combine_with_remainder(s_prime, lo, qu, W) ==
    IF qu # <<>>
    THEN wide_karatsuba_correction_with_remainder(
             wide_karatsuba_candidate(s_prime, WQuotient(qu), W),
             wide_karatsuba_low_part(WRemainder(qu), lo, W),
             WMul(WQuotient(qu), WQuotient(qu)), W)
    ELSE qu
wide_karatsuba_combine(s_prime, lo, qu, W) ==
    IF qu # <<>>
    THEN wide_karatsuba_correction(
             wide_karatsuba_candidate(s_prime, WQuotient(qu), W),
             wide_karatsuba_low_part(WRemainder(qu), lo, W),
             WMul(WQuotient(qu), WQuotient(qu)), W)
    ELSE qu[1]

\* The else branch on the shifted n, given half = (s', r') of its high half
wide_karatsuba_step_with_remainder(shifted, half, W) ==
    IF half # <<>>
    THEN wide_karatsuba_combine_with_remainder(
             half[1], wide_karatsuba_lo(shifted, W),
             wide_karatsuba_division(wide_karatsuba_lo(shifted, W), half[1], half[2], W), W)
    ELSE half
wide_karatsuba_step(shifted, half, W) ==
    IF half # <<>>
    THEN wide_karatsuba_combine(
             half[1], wide_karatsuba_lo(shifted, W),
             wide_karatsuba_division(wide_karatsuba_lo(shifted, W), half[1], half[2], W), W)
    ELSE half[1]

\* `(s >> (precondition_shift >> 1), r >> (precondition_shift >> 1))`
wide_karatsuba_unshift_pair(sr, precondition_shift) ==
    IF sr # <<>>
    THEN <<WShr(sr[1], Shr(precondition_shift, 1)), WShr(sr[2], Shr(precondition_shift, 1))>>
    ELSE sr

\* `(hi as $FullBitsT, lo as $FullBitsT)` of the half-width result
wide_karatsuba_widen_pair(sr, W) ==
    IF sr # <<>> THEN <<WAs(sr[1], W), WAs(sr[2], W)>> ELSE sr

\* `leading_zeros & (HALF_BITS - 2)`
wide_karatsuba_precondition_shift(n, W) == BitAnd(Wleading_zeros(n), Shr(W, 1) - 2)

\* `(n >> HALF_BITS) as $HalfBitsT`
wide_karatsuba_hi(n, W) == WAs(WShr(n, Shr(W, 1)), Shr(W, 1))

\* karatsuba_sqrt_with_remainder_32 .. _128 (and _16 on TLC integers)
RECURSIVE wide_karatsuba_sqrt_with_remainder(_, _)
wide_karatsuba_with_remainder_of_shifted(shifted, W) ==
    wide_karatsuba_step_with_remainder(
        shifted,
        wide_karatsuba_sqrt_with_remainder(wide_karatsuba_hi(shifted, W), Shr(W, 1)), W)
wide_karatsuba_sqrt_with_remainder(n, W) ==
    IF W = 16
    THEN <<WFromInt(karatsuba_sqrt_with_remainder(WToInt(n), 16)[1], 16),
           WFromInt(karatsuba_sqrt_with_remainder(WToInt(n), 16)[2], 16)>>
    ELSE IF Wleading_zeros(n) >= Shr(W, 1)
    THEN wide_karatsuba_widen_pair(
             wide_karatsuba_sqrt_with_remainder(WAs(n, Shr(W, 1)), Shr(W, 1)), W)
    ELSE wide_karatsuba_unshift_pair(
             wide_karatsuba_with_remainder_of_shifted(
                 WShl(n, wide_karatsuba_precondition_shift(n, W)), W),
             wide_karatsuba_precondition_shift(n, W))

\* The else branch of karatsuba_sqrt, from the shifted n on
wide_karatsuba_sqrt_of_shifted(shifted, W) ==
    wide_karatsuba_step(
        shifted,
        wide_karatsuba_sqrt_with_remainder(wide_karatsuba_hi(shifted, W), Shr(W, 1)), W)

\* karatsuba_sqrt_32 .. karatsuba_sqrt_128 (and karatsuba_sqrt_16 on TLC integers)
RECURSIVE wide_karatsuba_sqrt(_, _)
wide_karatsuba_sqrt(n, W) ==
    IF W = 16 THEN WFromInt(karatsuba_sqrt(WToInt(n), 16), 16)
    ELSE IF Wleading_zeros(n) >= Shr(W, 1)
    THEN WAs(wide_karatsuba_sqrt(WAs(n, Shr(W, 1)), Shr(W, 1)), W)
    ELSE WShr(wide_karatsuba_sqrt_of_shifted(
                  WShl(n, wide_karatsuba_precondition_shift(n, W)), W),
              Shr(wide_karatsuba_precondition_shift(n, W), 1))

\* karatsuba_2.rs: `let lo = $n & LOWER_HALF_1_BITS`
wide_k2_lo(n, ty_bits) ==
    WAnd(n, WSub(WShl(WOne(ty_bits), Shr(ty_bits, 1)), WOne(ty_bits)))

\* numerator / denominator and numerator % denominator, as <<q, u>>
wide_k2_division(lo, s, r, ty_bits) ==
    WDivMod(WOr(WShl(WAs(r, ty_bits), Shr(ty_bits, 2)), WShr(lo, Shr(ty_bits, 2))),
            WShl(WAs(s, ty_bits), 1))

\* `($s << QUARTER_BITS) as $ty + q`
wide_k2_candidate(s, q, ty_bits) ==
    WAdd(WAs(WShl(s, Shr(ty_bits, 2)), ty_bits), q)

\* `(u << QUARTER_BITS) | (lo & LOWEST_QUARTER_1_BITS)`
wide_k2_low_part(u, lo, ty_bits) ==
    WOr(WShl(u, Shr(ty_bits, 2)),
        WAnd(lo, WSub(WShl(WOne(ty_bits), Shr(ty_bits, 2)), WOne(ty_bits))))

\* middle_stage!: overflowing_sub and `if overflow { r = r.wrapping_add(2 * s - 1); s -= 1; }`
wide_middle_stage_correction(s, low_part, q_squared, ty_bits) ==
    IF WLess(low_part, q_squared)
    THEN <<WSub(s, WOne(ty_bits)),
           WAdd(WSub(low_part, q_squared),
                WSub(WMul(WFromInt(2, ty_bits), s), WOne(ty_bits)))>>
    ELSE <<s, WSub(low_part, q_squared)>>

\* The steps of middle_stage! after the division, given its result qu
wide_middle_stage_combine(s, lo, qu, ty_bits) ==
    IF qu # <<>>
    THEN wide_middle_stage_correction(
             wide_k2_candidate(s, WQuotient(qu), ty_bits),
             wide_k2_low_part(WRemainder(qu), lo, ty_bits),
             WMul(WQuotient(qu), WQuotient(qu)), ty_bits)
    ELSE qu

\* middle_stage! on n: $ty, the top ty_bits bits of the input
wide_middle_stage_of(n, sr, ty_bits) ==
    IF sr # <<>>
    THEN wide_middle_stage_combine(
             sr[1], wide_k2_lo(n, ty_bits),
             wide_k2_division(wide_k2_lo(n, ty_bits), sr[1], sr[2], ty_bits), ty_bits)
    ELSE sr

\* The stages up to the one working in ty_bits bits, on the shifted n
RECURSIVE wide_k2_stages(_, _)
wide_k2_stages(ty_bits, n) ==
    IF ty_bits = 16
    THEN <<WFromInt(k2_stages(16, 16, WToInt(WShr(n, 8 * Len(n) - 16)))[1], 16),
           WFromInt(k2_stages(16, 16, WToInt(WShr(n, 8 * Len(n) - 16)))[2], 16)>>
    ELSE wide_middle_stage_of(WAs(WShr(n, 8 * Len(n) - ty_bits), ty_bits),
                              wide_k2_stages(Shr(ty_bits, 1), n), ty_bits)

\* last_stage!: `let mut s = ($s << QUARTER_BITS) as $ty + numerator / denominator`
wide_last_stage_candidate(n, sr, W) ==
    IF sr # <<>>
    THEN wide_k2_candidate(
             sr[1], WQuotient(wide_k2_division(wide_k2_lo(n, W), sr[1], sr[2], W)), W)
    ELSE n

\* last_stage!: `if overflow || s_squared > $n { s -= 1; }`
wide_last_stage_correction(s, n) ==
    IF s # <<>> /\ (WMulOverflows(s, s) \/ WLess(n, WMul(s, s)))
    THEN WSub(s, WOne(8 * Len(s)))
    ELSE s

\* last_stage!(ty, n, s, r)
wide_last_stage(n, sr, W) ==
    wide_last_stage_correction(wide_last_stage_candidate(n, sr, W), n)

\* From `n <<= precondition_shift` to the last stage
wide_k2_isqrt_of_shifted(shifted, W) ==
    wide_last_stage(shifted, wide_k2_stages(Shr(W, 1), shifted), W)

\* karatsuba_isqrt_32 .. karatsuba_isqrt_128
wide_k2_karatsuba_isqrt(n, W) ==
    IF WIsZero(n) THEN WFromInt(0, W)
    ELSE WShr(wide_k2_isqrt_of_shifted(WShl(n, AndNot1(Wleading_zeros(n))), W),
              Shr(AndNot1(Wleading_zeros(n)), 1))

\* (s, r) is the root of n and its remainder: s * s + r = n and 0 <= r <= 2 * s
RootAndRemainder(s, r, n) == s >= 0 /\ r >= 0 /\ r <= 2 * s /\ s * s + r = n

\* Every entry of the three tables is right.
BaseCaseTableEntries ==
    /\ DOMAIN ISQRT_AND_REMAINDER_8_BIT = 0..255
    /\ DOMAIN K2_ISQRT_AND_REMAINDER_8_BIT = 0..255
    /\ DOMAIN FPK_ISQRT_8_BIT = 0..255
    /\ \A n \in 0..255 :
           /\ Bracketed(ISQRT_AND_REMAINDER_8_BIT[n][1], n)
           /\ RootAndRemainder(ISQRT_AND_REMAINDER_8_BIT[n][1],
                               ISQRT_AND_REMAINDER_8_BIT[n][2], n)
           /\ Bracketed(K2_ISQRT_AND_REMAINDER_8_BIT[n][1], n)
           /\ RootAndRemainder(K2_ISQRT_AND_REMAINDER_8_BIT[n][1],
                               K2_ISQRT_AND_REMAINDER_8_BIT[n][2], n)
           /\ Bracketed(FPK_ISQRT_8_BIT[n], n)

\* C11: in the tuple table of karatsuba.rs, the tuple table of karatsuba_2.rs
\* and ISQRT_8_BIT of floating_point_and_karatsuba.rs, for every n in 0..255
\* the root s of the entry has s * s <= n < (s + 1) * (s + 1), and a stored
\* remainder r has s * s + r = n and 0 <= r <= 2 * s; so has the entry that a
\* call on an 8-bit argument reads.
C11_BaseCaseTables ==
    /\ BaseCaseTableEntries
    /\ (ty.bits = 8 /\ self >= 0) =>
           /\ RootAndRemainder(karatsuba_sqrt_with_remainder_8(self)[1],
                               karatsuba_sqrt_with_remainder_8(self)[2], self)
           /\ RootAndRemainder(first_stage(8, self)[1], first_stage(8, self)[2], self)
           /\ Bracketed(FPK_ISQRT_8_BIT[self], self)

C11_Witness ==
    /\ UnsignedReturned("karatsuba") /\ ty.bits = 8 /\ self = 255
    /\ ret.v = ISQRT_AND_REMAINDER_8_BIT[self][1]
    /\ ISQRT_AND_REMAINDER_8_BIT[self] = <<15, 30>>
    /\ K2_ISQRT_AND_REMAINDER_8_BIT[self] = <<15, 30>>
    /\ FPK_ISQRT_8_BIT[self] = 15

\* A call of karatsuba_sqrt_with_remainder has returned.
WithRemainderReturned ==
    pc = "returned" /\ module = "karatsuba" /\ method = "sqrt_with_remainder"

\* C12: karatsuba_sqrt_with_remainder (here karatsuba_sqrt_with_remainder_16)
\* returns, for every input n and not
\* only the normalised ones, (s, r) with s = floor(sqrt(n)), s * s + r = n and
\* 0 <= r <= 2 * s.
C12_WithRemainderEveryInput ==
    WithRemainderReturned =>
        /\ ret.v = FloorSqrt(self)
        /\ RootAndRemainder(ret.v, ret.r, self)

\* C13: no call of an unsigned Karatsuba engine reaches a failing step: every
\* divisor 2 * s' is at least 1, every table index is within 0..255 and every
\* shift amount is smaller than the width of the shifted type; karatsuba_2
\* returns 0 for n = 0 before it shifts by the leading-zero count.
C13_Totality ==
    (~ty.signed /\ module \in {"karatsuba", "karatsuba_2"}) =>
        /\ pc # "panicked" /\ ret.kind # "panic"
        /\ ~karatsuba_shift_overflows(self, ty.bits)
        /\ ~karatsuba_index_out_of_table(self, ty.bits)
        /\ ~karatsuba_divides_by_zero(self, ty.bits)
        /\ ~k2_shift_overflows(self, ty.bits)
        /\ ~k2_index_out_of_table(self, ty.bits)
        /\ ~k2_divides_by_zero(self, ty.bits)
        /\ (module = "karatsuba_2" /\ self = 0 /\ pc = "done") => ret = Value(0)
        /\ (ty.bits > 8 /\ leading_zeros(self, ty.bits) < Shr(ty.bits, 1)) =>
               karatsuba_denominator(
                   karatsuba_hi(Shl(self, karatsuba_precondition_shift(self, ty.bits),
                                    ty.bits), ty.bits), ty.bits) >= 1
        /\ (ty.bits > 8 /\ self # 0) =>
               k2_denominator(ty.bits, ty.bits,
                              Shl(self, k2_precondition_shift(self, ty.bits), ty.bits)) >= 1

C13_Witness ==
    /\ UnsignedReturned("karatsuba_2") /\ ty.bits = 32 /\ self = 0
    /\ ret = Value(0)
    /\ leading_zeros(self, 32) = 32

\* floor(log2(n)) for n >= 1
FloorLog2(n) == CHOOSE e \in 0..30 : Pow2(e) <= n /\ n \div Pow2(e) < 2

\* log2(W / 8)
Levels(W) == FloorLog2(W \div 8)

\* The calls of the recursive Karatsuba engine halve the width at every level
\* and reach the 8-bit table after log2(W / 8) levels.
OneCallPerLevel ==
    (module = "karatsuba" /\ ~ty.signed /\ pc \in {"done", "returned"}) =>
        /\ Len(calls) = Levels(ty.bits) + 1
        /\ \A i \in 1..Len(calls) : calls[i].bits * Pow2(i - 1) = ty.bits
        /\ calls[Len(calls)].bits = 8

\* C14 as stated: for every input the loop of the binary engine ends after
\* exactly floor(log2(n) / 2) + 1 <= W / 2 iterations (log2 is taken for
\* n >= 1), and a Karatsuba call makes one call at half the width per level
\* and reaches the table after log2(W / 8) levels.
C14_StepsAsStated ==
    /\ (UnsignedReturned("original") /\ self >= 1) =>
           /\ iters = FloorLog2(self) \div 2 + 1
           /\ iters <= ty.bits \div 2
    /\ OneCallPerLevel

\* C14, amended: for every n >= 2 the loop of the binary engine ends after
\* exactly floor(log2(n) / 2) + 1 <= W / 2 iterations; for n < 2 the engine
\* returns n without entering the loop; a Karatsuba call makes one call at
\* half the width per level and reaches the table after log2(W / 8) levels.
C14_WidthBoundedSteps ==
    /\ (UnsignedReturned("original") /\ self >= 2) =>
           /\ iters = FloorLog2(self) \div 2 + 1
           /\ iters <= ty.bits \div 2
    /\ (UnsignedReturned("original") /\ self < 2) => iters = 0 /\ ret.v = self
    /\ OneCallPerLevel

C14_WitnessCalls ==
    /\ UnsignedReturned("karatsuba") /\ ty.bits = 32 /\ self > Pow2(30)
    /\ Len(calls) = 3
    /\ calls[2] = [fn |-> "sqrt_with_remainder", bits |-> 16]
    /\ calls[3] = [fn |-> "sqrt_with_remainder", bits |-> 8]

C14_Witness ==
    /\ UnsignedReturned("original") /\ ty.bits = 16 /\ self = MAX(16)
    /\ iters = 8

(***************************************************************************)
(* The candidate root of the combination step, before the correction.      *)
(***************************************************************************)
\* karatsuba_sqrt on the shifted n: (s', r') of hi
karatsuba_half_of_shifted(shifted, W) ==
    karatsuba_sqrt_with_remainder(karatsuba_hi(shifted, W), Shr(W, 1))

\* karatsuba_sqrt on the shifted n: q and u
karatsuba_division_of_shifted(shifted, W) ==
    karatsuba_division(karatsuba_half_of_shifted(shifted, W)[1],
                       karatsuba_half_of_shifted(shifted, W)[2],
                       karatsuba_lo(shifted, W), W)

\* karatsuba_sqrt on the shifted n: s after `let mut s = .. + q`
karatsuba_candidate_of_shifted(shifted, W) ==
    karatsuba_candidate(karatsuba_half_of_shifted(shifted, W)[1],
                        karatsuba_division_of_shifted(shifted, W).q, W)

\* karatsuba_sqrt on the shifted n: the test
\* `((u << QUARTER_BITS) | (lo & ((1 << QUARTER_BITS) - 1))) < q * q`
karatsuba_test_of_shifted(shifted, W) ==
    karatsuba_low_part(karatsuba_division_of_shifted(shifted, W).u,
                       karatsuba_lo(shifted, W), W)
        < MulW(karatsuba_division_of_shifted(shifted, W).q,
               karatsuba_division_of_shifted(shifted, W).q, W)

\* last_stage! on the shifted n: s after `let mut s = .. + numerator / denominator`
k2_candidate_of_shifted(shifted, W) ==
    LET sr == k2_stages(W, Shr(W, 1), shifted)
    IN  k2_candidate(sr[1],
            k2_division(sr[1], sr[2], BitAnd(shifted, Shl(1, Shr(W, 1), W) - 1), W).q, W)

\* The widths of the wide words: u32, u64, u128
WideWidths == {32, 64, 128}

\* 2^(W/2) - 1 as a W-bit word
WideRootOfMax(W) == WAs(WMAX(Shr(W, 1)), W)

\* The three engines on 0 at u32, u64 and u128
WideZero ==
    \A W \in WideWidths :
        /\ wide_original_isqrt(WFromInt(0, W)) = WFromInt(0, W)
        /\ wide_karatsuba_sqrt(WFromInt(0, W), W) = WFromInt(0, W)
        /\ wide_k2_karatsuba_isqrt(WFromInt(0, W), W) = WFromInt(0, W)

\* The binary engine on the maximal value of u32, u64 and u128
WideOriginalAtMax ==
    \A W \in WideWidths : wide_original_isqrt(WMAX(W)) = WideRootOfMax(W)

\* The recursive engine on the maximal value of u32, u64 and u128
WideKaratsubaAtMax ==
    \A W \in WideWidths : wide_karatsuba_sqrt(WMAX(W), W) = WideRootOfMax(W)

\* The unrolled engine on the maximal value of u32, u64 and u128
WideUnrolledAtMax ==
    \A W \in WideWidths : wide_k2_karatsuba_isqrt(WMAX(W), W) = WideRootOfMax(W)

\* At the maximal value the candidate is 2^(W/2): its square does not fit
WideCandidateAtMax ==
    \A W \in WideWidths :
        LET half == wide_karatsuba_sqrt_with_remainder(WMAX(Shr(W, 1)), Shr(W, 1))
            qu == wide_karatsuba_division(wide_karatsuba_lo(WMAX(W), W), half[1], half[2], W)
        IN  /\ wide_karatsuba_candidate(half[1], WQuotient(qu), W)
                   = WShl(WOne(W), Shr(W, 1))
            /\ wide_last_stage_candidate(WMAX(W), wide_k2_stages(Shr(W, 1), WMAX(W)), W)
                   = WShl(WOne(W), Shr(W, 1))
            /\ WMulOverflows(WShl(WOne(W), Shr(W, 1)), WShl(WOne(W), Shr(W, 1)))

\* isqrt(u64::MAX) is 4_294_967_295 = 0xFFFF_FFFF, and the recursive engine
\* agrees with the binary engine on u128::MAX
WideStatedValues ==
    /\ wide_original_isqrt(WMAX(64)) = <<255, 255, 255, 255, 0, 0, 0, 0>>
    /\ wide_karatsuba_sqrt(WMAX(64), 64) = <<255, 255, 255, 255, 0, 0, 0, 0>>
    /\ wide_k2_karatsuba_isqrt(WMAX(64), 64) = <<255, 255, 255, 255, 0, 0, 0, 0>>
    /\ wide_karatsuba_sqrt(WMAX(128), 128) = wide_original_isqrt(WMAX(128))

\* C15: every integer engine returns 0 on 0 and 2^(W/2) - 1 on 2^W - 1 at every
\* width (15 for u8, 4_294_967_295 for u64); the recursive engine and the binary
\* engine agree on u128::MAX; on the maximal input the candidate root is
\* 2^(W/2) before the correction.
C15_Boundaries ==
    /\ (pc = "done" /\ ~ty.signed /\ self = 0) => ret.v = 0
    /\ (pc = "done" /\ ~ty.signed /\ ty.bits < 31 /\ self = MAX(ty.bits)) =>
           /\ ret.v = Pow2(Shr(ty.bits, 1)) - 1
           /\ ty.bits = 8 => ret.v = 15
           /\ ty.bits = 16 =>
                  /\ karatsuba_candidate_of_shifted(self, 16) = Pow2(8)
                  /\ k2_candidate_of_shifted(self, 16) = Pow2(8)
    /\ WideZero
    /\ WideOriginalAtMax
    /\ WideKaratsubaAtMax
    /\ WideUnrolledAtMax
    /\ WideCandidateAtMax
    /\ WideStatedValues

C15_Witness ==
    /\ UnsignedReturned("karatsuba_2") /\ ty.bits = 16 /\ self = MAX(16)
    /\ k2_candidate_of_shifted(self, 16) = 256
    /\ ret.v = 255

\* The top two bits of the W-bit n are not both zero
Normalized(n, W) == n \div Pow2(W - 2) \in 1..3

\* The input of the combination step in the recursive engine: self shifted left
\* by the precondition shift
KaratsubaShifted == Shl(self, karatsuba_precondition_shift(self, ty.bits), ty.bits)

\* The input of the last stage in the unrolled engine
UnrolledShifted == Shl(self, k2_precondition_shift(self, ty.bits), ty.bits)

\* The recursive engine has returned from the branch with the combination step
KaratsubaCombined ==
    /\ UnsignedReturned("karatsuba")
    /\ ty.bits >= 16
    /\ leading_zeros(self, ty.bits) < Shr(ty.bits, 1)

\* The unrolled engine has returned from its last stage
UnrolledCombined ==
    /\ UnsignedReturned("karatsuba_2")
    /\ ty.bits >= 16
    /\ self # 0

\* C16: for a normalized n' whose high half is s'^2 + r' with 0 <= r' <= 2s',
\* the candidate s = s' * 2^(W/4) + q is floor(sqrt(n')) or floor(sqrt(n')) + 1,
\* the test (u * 2^(W/4) + lowest quarter of n') < q * q is true exactly when
\* s is one too large, and the decrement it guards yields floor(sqrt(n')).
C16_CombinationStep ==
    /\ (/\ KaratsubaCombined
        /\ Normalized(KaratsubaShifted, ty.bits)
        /\ RootAndRemainder(karatsuba_half_of_shifted(KaratsubaShifted, ty.bits)[1],
                            karatsuba_half_of_shifted(KaratsubaShifted, ty.bits)[2],
                            karatsuba_hi(KaratsubaShifted, ty.bits)))
       => /\ karatsuba_candidate_of_shifted(KaratsubaShifted, ty.bits)
                 \in {FloorSqrt(KaratsubaShifted), FloorSqrt(KaratsubaShifted) + 1}
          /\ karatsuba_test_of_shifted(KaratsubaShifted, ty.bits)
                 <=> (karatsuba_candidate_of_shifted(KaratsubaShifted, ty.bits)
                          = FloorSqrt(KaratsubaShifted) + 1)
          /\ karatsuba_sqrt_of_shifted(KaratsubaShifted, ty.bits)
                 = FloorSqrt(KaratsubaShifted)
    /\ (/\ UnrolledCombined
        /\ Normalized(UnrolledShifted, ty.bits)
        /\ RootAndRemainder(k2_stages(ty.bits, Shr(ty.bits, 1), UnrolledShifted)[1],
                            k2_stages(ty.bits, Shr(ty.bits, 1), UnrolledShifted)[2],
                            Shr(UnrolledShifted, Shr(ty.bits, 1))))
       => /\ k2_candidate_of_shifted(UnrolledShifted, ty.bits)
                 \in {FloorSqrt(UnrolledShifted), FloorSqrt(UnrolledShifted) + 1}
          /\ k2_isqrt_of_shifted(UnrolledShifted, ty.bits) = FloorSqrt(UnrolledShifted)

\* A 16-bit input that is shifted, whose candidate is one too large
C16_Witness ==
    /\ KaratsubaCombined /\ ty.bits = 16 /\ self # KaratsubaShifted
    /\ Normalized(KaratsubaShifted, 16)
    /\ RootAndRemainder(karatsuba_half_of_shifted(KaratsubaShifted, 16)[1],
                        karatsuba_half_of_shifted(KaratsubaShifted, 16)[2],
                        karatsuba_hi(KaratsubaShifted, 16))
    /\ karatsuba_test_of_shifted(KaratsubaShifted, 16)
    /\ karatsuba_candidate_of_shifted(KaratsubaShifted, 16) = FloorSqrt(KaratsubaShifted) + 1
    /\ ret.v = Shr(FloorSqrt(KaratsubaShifted),
                   Shr(karatsuba_precondition_shift(self, 16), 1))

\* The words 2^k and 2^(k + 1) - 1 of W bits: every leading-zero count
WideOneBit(k, W) == WShl(WOne(W), k)
WideLowBits(k, W) == WShr(WMAX(W), W - 1 - k)

\* x shifted left by shift: no set bit is shifted out and one of the two most
\* significant bits is set
WideShiftNormalizes(x, shift) ==
    /\ shift = Wleading_zeros(x) - (Wleading_zeros(x) % 2)
    /\ shift <= Wleading_zeros(x)
    /\ WShr(WShl(x, shift), shift) = x
    /\ Wleading_zeros(WShl(x, shift)) <= 1

\* The precondition shifts of the two engines at u32, u64 and u128
WidePreconditionShifts ==
    \A W \in WideWidths : \A k \in 0..(W - 1) :
        /\ WideShiftNormalizes(WideOneBit(k, W), AndNot1(Wleading_zeros(WideOneBit(k, W))))
        /\ WideShiftNormalizes(WideLowBits(k, W), AndNot1(Wleading_zeros(WideLowBits(k, W))))
        /\ k >= Shr(W, 1) =>
               /\ WideShiftNormalizes(WideOneBit(k, W),
                      wide_karatsuba_precondition_shift(WideOneBit(k, W), W))
               /\ WideShiftNormalizes(WideLowBits(k, W),
                      wide_karatsuba_precondition_shift(WideLowBits(k, W), W))

\* C17: for every n with fewer than W / 2 leading zeros (recursive engine) and
\* every n # 0 (unrolled engine), the precondition shift is the leading-zero
\* count rounded down to an even number, is at most that count so that no set
\* bit is shifted out, and leaves one of the two most significant bits set.
C17_PreconditionShift ==
    /\ KaratsubaCombined =>
           /\ karatsuba_precondition_shift(self, ty.bits)
                  = leading_zeros(self, ty.bits) - (leading_zeros(self, ty.bits) % 2)
           /\ karatsuba_precondition_shift(self, ty.bits) <= leading_zeros(self, ty.bits)
           /\ KaratsubaShifted = self * Pow2(karatsuba_precondition_shift(self, ty.bits))
           /\ Normalized(KaratsubaShifted, ty.bits)
    /\ UnrolledCombined =>
           /\ k2_precondition_shift(self, ty.bits)
                  = leading_zeros(self, ty.bits) - (leading_zeros(self, ty.bits) % 2)
           /\ k2_precondition_shift(self, ty.bits) <= leading_zeros(self, ty.bits)
           /\ UnrolledShifted = self * Pow2(k2_precondition_shift(self, ty.bits))
           /\ Normalized(UnrolledShifted, ty.bits)
    /\ WidePreconditionShifts

\* The unrolled engine on 1: u16 with 15 leading zeros, shifted by 14
C17_Witness ==
    /\ UnrolledCombined /\ ty.bits = 16 /\ self = 1
    /\ k2_precondition_shift(self, 16) = 14
    /\ UnrolledShifted = 16384
    /\ ret.v = 1

C17_WitnessKaratsuba ==
    /\ KaratsubaCombined /\ ty.bits = 16 /\ leading_zeros(self, 16) = 7
    /\ karatsuba_precondition_shift(self, 16) = 6
    /\ Normalized(KaratsubaShifted, 16)

\* Exponents of the u64 words on which the unshift is evaluated
WideUnshiftExponents == {0, 1, 20, 31, 32, 45, 62, 63}

\* On u64 words, with the binary engine as floor(sqrt(.)): the root of the word
\* shifted left by its even precondition shift, shifted right by half of it, is
\* the root of the word
WideUnshiftExact ==
    \A k \in WideUnshiftExponents :
        /\ WShr(wide_original_isqrt(
                    WShl(WideLowBits(k, 64), AndNot1(Wleading_zeros(WideLowBits(k, 64))))),
                Shr(AndNot1(Wleading_zeros(WideLowBits(k, 64))), 1))
               = wide_original_isqrt(WideLowBits(k, 64))
        /\ wide_k2_karatsuba_isqrt(WideLowBits(k, 64), 64)
               = wide_original_isqrt(WideLowBits(k, 64))

\* C18: for every n and every even shift 2k that loses no bit of n,
\* floor(sqrt(n * 2^(2k))) >> k = floor(sqrt(n)); the engines' value
\* s >> (precondition_shift >> 1) is the root of the original n.
C18_UnshiftExact ==
    /\ (pc = "done" /\ ~ty.signed /\ self # 0) =>
           \A k \in 0..(leading_zeros(self, ty.bits) \div 2) :
               Shr(FloorSqrt(self * Pow2(2 * k)), k) = FloorSqrt(self)
    /\ KaratsubaCombined =>
           /\ ret.v = Shr(karatsuba_sqrt_of_shifted(KaratsubaShifted, ty.bits),
                          Shr(karatsuba_precondition_shift(self, ty.bits), 1))
           /\ ret.v = FloorSqrt(self)
    /\ UnrolledCombined =>
           /\ ret.v = Shr(FloorSqrt(UnrolledShifted),
                          Shr(k2_precondition_shift(self, ty.bits), 1))
           /\ ret.v = FloorSqrt(self)
    /\ WideUnshiftExact

\* The unrolled engine on 3 (u16): shifted by 14 to 49152, whose root 221 shifted
\* right by 7 is 1
C18_Witness ==
    /\ UnrolledCombined /\ ty.bits = 16 /\ self = 3
    /\ k2_precondition_shift(self, 16) = 14
    /\ FloorSqrt(UnrolledShifted) = 221
    /\ ret.v = 1

\* The result <<s, r>> of a remainder-tracking step on n, whose candidate was s0:
\* on underflow of low_part - q_squared it is s0 - 1 with n - (s0 - 1)^2, which
\* is at most 2 * (s0 - 1); otherwise it is s0 with the difference itself,
\* which is n - s0^2 and at most 2 * s0
StepRemainder(s0, low_part, q_squared, sr, n) ==
    IF low_part < q_squared
    THEN /\ sr[1] = s0 - 1
         /\ sr[2] = n - (s0 - 1) * (s0 - 1)
         /\ sr[2] \in 0..(2 * (s0 - 1))
    ELSE /\ sr[1] = s0
         /\ sr[2] = low_part - q_squared
         /\ sr[2] = n - s0 * s0
         /\ sr[2] \in 0..(2 * s0)

\* The step of karatsuba_sqrt_with_remainder on the normalized n, given the
\* pair half of its high half, with the result sr
KaratsubaStepCorrected(half, sr, n, W) ==
    LET lo == karatsuba_lo(n, W)
        qu == karatsuba_division(half[1], half[2], lo, W)
    IN  StepRemainder(karatsuba_candidate(half[1], qu.q, W),
                      karatsuba_low_part(qu.u, lo, W),
                      MulW(qu.q, qu.q, W), sr, n)

\* middle_stage! on n, the top ty_bits bits of the normalized input, given the
\* pair of the stage before
UnrolledStepCorrected(sr, n, ty_bits) ==
    LET lo == BitAnd(n, Shl(1, Shr(ty_bits, 1), ty_bits) - 1)
        qu == k2_division(sr[1], sr[2], lo, ty_bits)
    IN  StepRemainder(k2_candidate(sr[1], qu.q, ty_bits),
                      k2_low_part(qu.u, lo, ty_bits),
                      MulW(qu.q, qu.q, ty_bits), middle_stage_of(n, sr, ty_bits), n)

\* The low halves on which the 16-bit steps are evaluated for every high half
StepLowHalves == {0, 1, 15, 16, 17, 100, 127, 128, 200, 240, 254, 255}

\* The 16-bit step of the three engines on every normalized high half
StepsOnEveryHighHalf ==
    \A hi \in 64..255 : \A lo \in StepLowHalves :
        /\ KaratsubaStepCorrected(karatsuba_sqrt_with_remainder_8(hi),
               karatsuba_with_remainder_of_shifted(256 * hi + lo, 16),
               256 * hi + lo, 16)
        /\ UnrolledStepCorrected(first_stage(16, 256 * hi + lo), 256 * hi + lo, 16)
        /\ fpk_karatsuba_isqrt_with_remainder_8(hi) = karatsuba_sqrt_with_remainder_8(hi)
        /\ KaratsubaStepCorrected(fpk_karatsuba_isqrt_with_remainder_8(hi),
               fpk_karatsuba_with_remainder_of_shifted(256 * hi + lo),
               256 * hi + lo, 16)

\* StepRemainder on words: the root and the remainder are compared with n by
\* s * s + r = n, which does not wrap, and r <= 2 * s
WideStepRemainder(s0, low_part, q_squared, sr, n) ==
    /\ sr # <<>>
    /\ sr[1] = (IF WLess(low_part, q_squared) THEN WSub(s0, WOne(8 * Len(s0))) ELSE s0)
    /\ WLess(low_part, q_squared) \/ sr[2] = WSub(low_part, q_squared)
    /\ ~WMulOverflows(sr[1], sr[1])
    /\ WAdd(WMul(sr[1], sr[1]), sr[2]) = n
    /\ ~WLess(WAs(WShl(WAs(sr[1], 16 + 8 * Len(n)), 1), 16 + 8 * Len(n)),
              WAs(sr[2], 16 + 8 * Len(n)))

\* The step of karatsuba_sqrt_with_remainder_32 on the word n, from the
\* division's result qu on
WideKaratsubaStepOn(half, lo, qu, n) ==
    /\ qu # <<>>
    /\ WideStepRemainder(wide_karatsuba_candidate(half[1], WQuotient(qu), 32),
                         wide_karatsuba_low_part(WRemainder(qu), lo, 32),
                         WMul(WQuotient(qu), WQuotient(qu)),
                         wide_karatsuba_combine_with_remainder(half[1], lo, qu, 32), n)

WideKaratsubaStepCorrected(half, n) ==
    /\ half # <<>>
    /\ WideKaratsubaStepOn(half, wide_karatsuba_lo(n, 32),
           wide_karatsuba_division(wide_karatsuba_lo(n, 32), half[1], half[2], 32), n)

\* middle_stage!(.., u32, ..) on the word n, from the division's result qu on
WideUnrolledStepOn(sr, lo, qu, n) ==
    /\ qu # <<>>
    /\ WideStepRemainder(wide_k2_candidate(sr[1], WQuotient(qu), 32),
                         wide_k2_low_part(WRemainder(qu), lo, 32),
                         WMul(WQuotient(qu), WQuotient(qu)),
                         wide_middle_stage_combine(sr[1], lo, qu, 32), n)

WideUnrolledStepCorrected(sr, n) ==
    /\ sr # <<>>
    /\ WideUnrolledStepOn(sr, wide_k2_lo(n, 32),
           wide_k2_division(wide_k2_lo(n, 32), sr[1], sr[2], 32), n)

\* Normalized u32 words on which the 32-bit steps are evaluated
WideStepWords ==
    {<<255, 255, 255, 255>>, <<0, 0, 0, 64>>, <<1, 0, 0, 64>>, <<255, 255, 255, 127>>,
     <<0, 0, 0, 128>>, <<17, 34, 51, 200>>, <<255, 255, 0, 64>>, <<0, 0, 1, 81>>}

\* The 32-bit step of the recursive and of the unrolled engine
WideStepsCorrected ==
    \A n \in WideStepWords :
        /\ WideKaratsubaStepCorrected(
               wide_karatsuba_sqrt_with_remainder(wide_karatsuba_hi(n, 32), 16), n)
        /\ WideUnrolledStepCorrected(wide_k2_stages(16, n), n)

\* On the largest u32 the 32-bit step takes the branch of the underflow
WideStepBorrows ==
    /\ wide_karatsuba_with_remainder_of_shifted(WMAX(32), 32)
           = <<WAs(WMAX(16), 32), <<254, 255, 1, 0>>>>
    /\ wide_middle_stage_of(WMAX(32), wide_k2_stages(16, WMAX(32)), 32)
           = <<WAs(WMAX(16), 32), <<254, 255, 1, 0>>>>

\* C19: in the remainder-tracking step, whenever (u * 2^(W/4) + lowest quarter)
\* - q * q underflows, adding 2s - 1 with wraparound (s the candidate before the
\* decrement) and decrementing s gives the remainder n' - (s - 1)^2, which is at
\* most 2(s - 1); when it does not underflow, the difference is n' - s^2 <= 2s.
C19_BorrowCorrection ==
    /\ (WithRemainderReturned /\ leading_zeros(self, 16) < 8) =>
           /\ KaratsubaStepCorrected(karatsuba_half_of_shifted(KaratsubaShifted, 16),
                  karatsuba_with_remainder_of_shifted(KaratsubaShifted, 16),
                  KaratsubaShifted, 16)
           /\ ret.v = Shr(karatsuba_with_remainder_of_shifted(KaratsubaShifted, 16)[1],
                          Shr(karatsuba_precondition_shift(self, 16), 1))
           /\ ret.r = Shr(karatsuba_with_remainder_of_shifted(KaratsubaShifted, 16)[2],
                          Shr(karatsuba_precondition_shift(self, 16), 1))
    /\ (KaratsubaCombined /\ ty.bits = 32) =>
           KaratsubaStepCorrected(
               karatsuba_sqrt_with_remainder_8(
                   karatsuba_hi(karatsuba_hi(KaratsubaShifted, 32), 16)),
               karatsuba_half_of_shifted(KaratsubaShifted, 32),
               karatsuba_hi(KaratsubaShifted, 32), 16)
    /\ (UnrolledCombined /\ ty.bits = 32) =>
           /\ UnrolledStepCorrected(first_stage(32, UnrolledShifted),
                                    Shr(UnrolledShifted, 16), 16)
           /\ k2_stages(32, 16, UnrolledShifted)
                  = middle_stage_of(Shr(UnrolledShifted, 16),
                                    first_stage(32, UnrolledShifted), 16)
    /\ StepsOnEveryHighHalf
    /\ WideStepsCorrected
    /\ WideStepBorrows

\* karatsuba_sqrt_with_remainder_16 on 65535: the candidate is 256, 255 - 256
\* underflows, and the result is (255, 510)
C19_Witness ==
    /\ WithRemainderReturned /\ self = 65535
    /\ karatsuba_candidate_of_shifted(self, 16) = 256
    /\ karatsuba_test_of_shifted(self, 16)
    /\ ret.v = 255 /\ ret.r = 510

\* The same step without an underflow: 16384 gives (128, 0)
C19_WitnessNoBorrow ==
    /\ WithRemainderReturned /\ self = 16384
    /\ ~karatsuba_test_of_shifted(self, 16)
    /\ ret.v = 128 /\ ret.r = 0

\* RootAndRemainder on words: s * s does not wrap, s * s + r = n and r <= 2 * s
WideRootAndRemainder(sr, n) ==
    /\ sr # <<>>
    /\ ~WMulOverflows(sr[1], sr[1])
    /\ WAdd(WMul(sr[1], sr[1]), sr[2]) = n
    /\ ~WLess(WAs(WShl(WAs(sr[1], 16 + 8 * Len(n)), 1), 16 + 8 * Len(n)),
              WAs(sr[2], 16 + 8 * Len(n)))

\* The top b bits of the word n, as a word of b bits
WideTopBits(n, b) == WAs(WShr(n, 8 * Len(n) - b), b)

\* The word n shifted left by its even precondition shift
WideNormalized(n) == WShl(n, AndNot1(Wleading_zeros(n)))

\* Non-zero words of u64 and u128 on which the stages are evaluated
WideStageWords ==
    {WMAX(64), WideOneBit(0, 64), WideOneBit(33, 64), WideLowBits(37, 64),
     <<17, 34, 51, 200, 1, 2, 3, 4>>, <<0, 0, 0, 0, 0, 0, 0, 81>>,
     WMAX(128), WideOneBit(0, 128), WideLowBits(100, 128),
     <<9, 8, 7, 6, 5, 4, 3, 2, 1, 0, 255, 254, 253, 252, 251, 26>>}

\* The stages that work on fewer bits than the word has
WideStageBits(n) == {b \in {16, 32, 64} : b < 8 * Len(n)}

\* After first_stage! and after each middle_stage! on a word of u64 or u128
WideStagesHold ==
    \A n \in WideStageWords :
        /\ RootAndRemainder(
               first_stage(16, WToInt(WideTopBits(WideNormalized(n), 16)))[1],
               first_stage(16, WToInt(WideTopBits(WideNormalized(n), 16)))[2],
               WToInt(WideTopBits(WideNormalized(n), 8)))
        /\ \A b \in WideStageBits(n) :
               WideRootAndRemainder(wide_k2_stages(b, WideNormalized(n)),
                                    WideTopBits(WideNormalized(n), b))

\* C20: in the unrolled engine, for every non-zero n, after first_stage and
\* after each middle_stage working on the top b bits of the normalized n
\* (b = 8, then 16, 32, 64 as the width allows), the pair (s, r) handed to the
\* next stage satisfies s * s + r = (normalized n >> (W - b)) and 0 <= r <= 2s.
C20_StageInvariant ==
    /\ UnrolledCombined =>
           /\ RootAndRemainder(first_stage(ty.bits, UnrolledShifted)[1],
                               first_stage(ty.bits, UnrolledShifted)[2],
                               Shr(UnrolledShifted, ty.bits - 8))
           /\ \A b \in {x \in {8, 16} : x < ty.bits} :
                  RootAndRemainder(k2_stages(ty.bits, b, UnrolledShifted)[1],
                                   k2_stages(ty.bits, b, UnrolledShifted)[2],
                                   Shr(UnrolledShifted, ty.bits - b))
    /\ WideStagesHold

\* The unrolled engine on 1056 (u32): shifted by 20 to 1107296256; the first
\* stage hands (8, 2) for the top byte 66, the middle stage (129, 255) for the
\* top 16 bits 16896, after an underflow at the candidate 130
C20_Witness ==
    /\ UnrolledCombined /\ ty.bits = 32 /\ self = 1056
    /\ Shr(UnrolledShifted, 16) = 16896
    /\ first_stage(32, UnrolledShifted) = <<8, 2>>
    /\ k2_candidate(8, k2_division(8, 2, 0, 16).q, 16) = 130
    /\ k2_stages(32, 16, UnrolledShifted) = <<129, 255>>
    /\ ret.v = 32

(***************************************************************************)
(* The binary engine: its start and its loop.                              *)
(***************************************************************************)
\* x = 4^k for some k
IsPowerOfFour(x) == \E k \in 0..15 : x = Pow2(2 * k)

\* one is the largest power of four that is at most n
LargestPowerOfFour(one, n) == IsPowerOfFour(one) /\ one <= n /\ n \div 4 < one

\* The loop of the binary engine has been entered and no iteration has run
OriginalLoopEntered == module = "original" /\ pc = "loop" /\ iters = 0

\* Words of u64 and u128 on which the start of the binary engine is evaluated
WideStartWords ==
    {WFromInt(2, 64), WFromInt(3, 64), WFromInt(4, 64), WideOneBit(33, 64),
     WideLowBits(37, 64), WMAX(64), WideOneBit(64, 128), WideLowBits(100, 128), WMAX(128)}

\* On words: 0 and 1 are returned unchanged; for the others `one` has a single
\* bit, at an even position, it is at most n, n >> 2 is below it, and the
\* result is not 0
WideStart ==
    /\ \A W \in {64, 128} :
           /\ wide_original_isqrt(WFromInt(0, W)) = WFromInt(0, W)
           /\ wide_original_isqrt(WFromInt(1, W)) = WFromInt(1, W)
    /\ \A n \in WideStartWords :
           /\ \E k \in 0..(4 * Len(n) - 1) : wide_original_one(n) = WideOneBit(2 * k, 8 * Len(n))
           /\ ~WLess(n, wide_original_one(n))
           /\ WLess(WShr(n, 2), wide_original_one(n))
           /\ ~WIsZero(wide_original_isqrt(n))

\* C24: the binary engine returns 0 and 1 unchanged without entering the loop;
\* for every n >= 2 the initial `one` = 1 << (floor(log2(n)) & !1) is the largest
\* power of four that is at most n, and the loop's result is > 0.
C24_BinaryStart ==
    /\ (UnsignedReturned("original") /\ self < 2) =>
           ret.v = self /\ iters = 0 /\ loop = Idle
    /\ (module = "original" /\ pc = "loop") => self >= 2
    /\ OriginalLoopEntered =>
           /\ loop.one = Shl(1, AndNot1(ilog2(self)), ty.bits)
           /\ LargestPowerOfFour(loop.one, self)
           /\ loop.op = self /\ loop.res = 0
    /\ (UnsignedReturned("original") /\ self >= 2) =>
           iters > 0 /\ loop.one = 0 /\ ret.v = loop.res /\ 0 < ret.v
    /\ WideStart

\* The loop entered on 23 (u8): one = 16
C24_Witness ==
    /\ OriginalLoopEntered /\ ty.bits = 8 /\ self = 23
    /\ loop = [op |-> 23, res |-> 0, one |-> 16]

\* 1 returned without a loop iteration
C24_WitnessSmall ==
    /\ UnsignedReturned("original") /\ self = 1 /\ ret.v = 1 /\ iters = 0 /\ loop = Idle

\* 2 returned from the loop: its result is 1
C24_WitnessReturned ==
    /\ UnsignedReturned("original") /\ self = 2 /\ ret.v = 1 /\ iters = 1

\* The loop state of the binary engine on the word n before pass j (j >= 1)
WideLoopBefore(n, j) ==
    IF j = 1 THEN <<n, WFromInt(0, 8 * Len(n)), wide_original_one(n)>>
    ELSE wide_original_loop(<<n, WFromInt(0, 8 * Len(n)), wide_original_one(n)>>, j - 1)

\* In the state st = <<op, res, one>>: res + one does not wrap, and the pass
\* subtracts it from op only when op is at least as large
WidePassInRange(st) ==
    /\ st # <<>>
    /\ ~WLess(WAdd(st[2], st[3]), st[2])
    /\ wide_original_loop_pass(st)[1] # st[1] =>
           /\ ~WLess(st[1], WAdd(st[2], st[3]))
           /\ WAdd(wide_original_loop_pass(st)[1], WAdd(st[2], st[3])) = st[1]

\* At the exit st of the loop on n: one = 0, op = n - res * res and op <= 2 * res
WideLoopExit(st, n) ==
    /\ st # <<>>
    /\ WIsZero(st[3])
    /\ WideRootAndRemainder(<<st[2], st[1]>>, n)

\* Words of u64 and u128 on which the loop of the binary engine is followed
WideLoopWords == {WMAX(64), WideLowBits(37, 64), <<17, 34, 51, 200, 1, 2, 3, 4>>, WMAX(128)}

WideLoopInvariant ==
    \A n \in WideLoopWords :
        /\ \A j \in 1..(4 * Len(n)) : WidePassInRange(WideLoopBefore(n, j))
        /\ WideLoopExit(WideLoopBefore(n, 4 * Len(n) + 1), n)

\* C25: in every iteration of the binary engine's loop, for every n >= 2 and
\* every width, res + one does not overflow W bits and op -= res + one is only
\* executed when op >= res + one; when the loop exits, op = n - res * res and
\* op <= 2 * res.
C25_LoopInvariant ==
    /\ (module = "original" /\ pc = "loop" /\ loop.one # 0) =>
           /\ ty.bits < 31 => loop.res + loop.one <= MAX(ty.bits)
           /\ AddW(loop.res, loop.one, ty.bits) = loop.res + loop.one
           /\ original_loop_body(loop, ty.bits).op =
                  (IF loop.op >= loop.res + loop.one
                   THEN loop.op - (loop.res + loop.one) ELSE loop.op)
           /\ original_loop_body(loop, ty.bits).op \in 0..loop.op
    /\ (module = "original" /\ pc \in {"loop", "done"} /\ self >= 2 /\ loop.one = 0
        /\ ~ty.signed) =>
           /\ loop.op = self - loop.res * loop.res
           /\ loop.op \in 0..(2 * loop.res)
    /\ WideLoopInvariant

\* The loop on 255 (u8) at its exit: res = 15, op = 255 - 225 = 30 = 2 * 15
C25_Witness ==
    /\ module = "original" /\ pc = "loop" /\ ty.bits = 8 /\ self = 255
    /\ loop = [op |-> 30, res |-> 15, one |-> 0]
    /\ iters = 4

\* The loop on 255 (u8) before its second iteration: res + one = 64 + 16 <= op = 191
C25_WitnessIteration ==
    /\ module = "original" /\ pc = "loop" /\ ty.bits = 8 /\ self = 255
    /\ loop = [op |-> 191, res |-> 64, one |-> 16]

(***************************************************************************)
(* The intermediate values of the Karatsuba engines.                       *)
(***************************************************************************)
\* The values of one combination step of karatsuba.rs on (s', r') = half and
\* lo at width W, as the code computes them, are the values of the same
\* expressions on the integers: nothing is lost by a shift, the product or
\* the sum; and q <= 2^(W/4), s <= 2^(W/2)
KaratsubaStepFits(half, lo, qu, W) ==
    /\ Shl(half[1], Shr(W, 2), Shr(W, 1)) = half[1] * Pow2(Shr(W, 2))
    /\ Shl(half[2], Shr(W, 2), W) = half[2] * Pow2(Shr(W, 2))
    /\ Shl(half[1], 1, W) = 2 * half[1]
    /\ qu.q <= Pow2(Shr(W, 2))
    /\ MulW(qu.q, qu.q, W) = qu.q * qu.q
    /\ Shl(qu.u, Shr(W, 2), W) = qu.u * Pow2(Shr(W, 2))
    /\ karatsuba_candidate(half[1], qu.q, W) = half[1] * Pow2(Shr(W, 2)) + qu.q
    /\ karatsuba_candidate(half[1], qu.q, W) <= Pow2(Shr(W, 1))
    /\ W < 31 => /\ half[2] * Pow2(Shr(W, 2)) + Shr(lo, Shr(W, 2)) <= MAX(W)
                 /\ qu.q * qu.q <= MAX(W)
                 /\ qu.u * Pow2(Shr(W, 2)) <= MAX(W)

\* The same for middle_stage! and last_stage! of karatsuba_2.rs
UnrolledStepFits(sr, lo, qu, ty_bits) ==
    /\ Shl(sr[1], Shr(ty_bits, 2), Shr(ty_bits, 1)) = sr[1] * Pow2(Shr(ty_bits, 2))
    /\ Shl(sr[2], Shr(ty_bits, 2), ty_bits) = sr[2] * Pow2(Shr(ty_bits, 2))
    /\ Shl(sr[1], 1, ty_bits) = 2 * sr[1]
    /\ qu.q <= Pow2(Shr(ty_bits, 2))
    /\ MulW(qu.q, qu.q, ty_bits) = qu.q * qu.q
    /\ Shl(qu.u, Shr(ty_bits, 2), ty_bits) = qu.u * Pow2(Shr(ty_bits, 2))
    /\ k2_candidate(sr[1], qu.q, ty_bits) = sr[1] * Pow2(Shr(ty_bits, 2)) + qu.q
    /\ k2_candidate(sr[1], qu.q, ty_bits) <= Pow2(Shr(ty_bits, 1))
    /\ ty_bits < 31 => /\ sr[2] * Pow2(Shr(ty_bits, 2)) + Shr(lo, Shr(ty_bits, 2)) <= MAX(ty_bits)
                       /\ qu.q * qu.q <= MAX(ty_bits)
                       /\ qu.u * Pow2(Shr(ty_bits, 2)) <= MAX(ty_bits)

\* The step of the recursive engine on the normalized n at width W
KaratsubaFitsOn(n, W) ==
    KaratsubaStepFits(karatsuba_half_of_shifted(n, W), karatsuba_lo(n, W),
                      karatsuba_division_of_shifted(n, W), W)

\* The stage of the unrolled engine on n, the top ty_bits bits of the normalized
\* input, after the pair sr
UnrolledFitsOn(sr, n, ty_bits) ==
    UnrolledStepFits(sr, BitAnd(n, Shl(1, Shr(ty_bits, 1), ty_bits) - 1),
        k2_division(sr[1], sr[2], BitAnd(n, Shl(1, Shr(ty_bits, 1), ty_bits) - 1), ty_bits),
        ty_bits)

\* The square of the last stage's candidate overflows exactly when the
\* candidate is 2^(W/2), and the candidate is then decremented
LastStageOverflow(s, n, W) ==
    /\ (MulW(s, s, W) # s * s) <=> s = Pow2(Shr(W, 1))
    /\ s = Pow2(Shr(W, 1)) => last_stage_correction(s, n, W) = s - 1

\* The 16-bit steps of both engines on every normalized high half
StepsFitOnEveryHighHalf ==
    \A hi \in 64..255 : \A lo \in StepLowHalves :
        /\ KaratsubaFitsOn(256 * hi + lo, 16)
        /\ UnrolledFitsOn(first_stage(16, 256 * hi + lo), 256 * hi + lo, 16)
        /\ LastStageOverflow(k2_candidate_of_shifted(256 * hi + lo, 16), 256 * hi + lo, 16)

\* x << k loses no bit of the word x
WideShlFits(x, k) == WShr(WShl(x, k), k) = x

\* One step at width W on words: (s', r') = half of W / 2 bits, lo and the
\* division's result qu of W bits
WideStepFits(half, lo, qu, W) ==
    /\ half # <<>> /\ qu # <<>>
    /\ WideShlFits(half[1], Shr(W, 2))
    /\ WideShlFits(WAs(half[2], W), Shr(W, 2))
    /\ WideShlFits(WAs(half[1], W), 1)
    /\ ~WLess(WideOneBit(Shr(W, 2), W), WQuotient(qu))
    /\ ~WMulOverflows(WQuotient(qu), WQuotient(qu))
    /\ WideShlFits(WRemainder(qu), Shr(W, 2))
    /\ ~WLess(wide_karatsuba_candidate(half[1], WQuotient(qu), W), WQuotient(qu))
    /\ ~WLess(WideOneBit(Shr(W, 1), W), wide_karatsuba_candidate(half[1], WQuotient(qu), W))
    /\ wide_k2_candidate(half[1], WQuotient(qu), W)
           = wide_karatsuba_candidate(half[1], WQuotient(qu), W)

WideStepFitsOn(half, n, W) ==
    /\ half # <<>>
    /\ WideStepFits(half, wide_karatsuba_lo(n, W),
           wide_karatsuba_division(wide_karatsuba_lo(n, W), half[1], half[2], W), W)

\* Normalized words of u32, u64 and u128 on which the steps are evaluated
WideFitWords ==
    WideStepWords \cup
    {WMAX(64), WideOneBit(62, 64), <<17, 34, 51, 200, 1, 2, 3, 84>>,
     <<255, 255, 255, 255, 255, 255, 255, 127>>, WMAX(128), WideOneBit(126, 128)}

\* The last step of both engines on the words: the pairs of the recursive and
\* of the unrolled engine for the high half are the same
WideStepsFit ==
    \A n \in WideFitWords :
        /\ WideStepFitsOn(
               wide_karatsuba_sqrt_with_remainder(wide_karatsuba_hi(n, 8 * Len(n)), 4 * Len(n)),
               n, 8 * Len(n))
        /\ wide_k2_stages(4 * Len(n), n)
               = wide_karatsuba_sqrt_with_remainder(wide_karatsuba_hi(n, 8 * Len(n)), 4 * Len(n))
        /\ WMulOverflows(wide_last_stage_candidate(n, wide_k2_stages(4 * Len(n), n), 8 * Len(n)),
                         wide_last_stage_candidate(n, wide_k2_stages(4 * Len(n), n), 8 * Len(n)))
               <=> wide_last_stage_candidate(n, wide_k2_stages(4 * Len(n), n), 8 * Len(n))
                       = WideOneBit(4 * Len(n), 8 * Len(n))

\* C26: no silent wraparound in the Karatsuba engines: s' << (W/4) fits in the
\* half-width (or previous-stage) type in which it is computed, q <= 2^(W/4),
\* and q * q, u << (W/4), the numerator and the candidate s = (s' << (W/4)) + q
\* all fit in W bits; the only overflow is the squaring of s = 2^(W/2) in
\* last_stage, which overflowing_mul detects and which is treated as s * s > n.
C26_NoSilentWraparound ==
    /\ KaratsubaCombined =>
           /\ KaratsubaFitsOn(KaratsubaShifted, ty.bits)
           /\ ty.bits = 32 => KaratsubaFitsOn(karatsuba_hi(KaratsubaShifted, 32), 16)
    /\ UnrolledCombined =>
           /\ UnrolledFitsOn(k2_stages(ty.bits, Shr(ty.bits, 1), UnrolledShifted),
                             UnrolledShifted, ty.bits)
           /\ ty.bits = 32 => UnrolledFitsOn(first_stage(32, UnrolledShifted),
                                             Shr(UnrolledShifted, 16), 16)
           /\ LastStageOverflow(k2_candidate_of_shifted(UnrolledShifted, ty.bits),
                                UnrolledShifted, ty.bits)
    /\ StepsFitOnEveryHighHalf
    /\ WideStepsFit

\* The recursive engine on 65535 (u16): s' = 15, q = 16 = 2^(W/4), and the
\* candidate 15 * 16 + 16 = 256 = 2^(W/2) is held in 16 bits
C26_Witness ==
    /\ KaratsubaCombined /\ ty.bits = 16 /\ self = 65535
    /\ karatsuba_half_of_shifted(self, 16)[1] = 15
    /\ karatsuba_division_of_shifted(self, 16).q = 16
    /\ karatsuba_candidate_of_shifted(self, 16) = 256
    /\ ret.v = 255

\* The unrolled engine on 65535 (u16): the square of the candidate 256 overflows
\* 16 bits and the candidate is decremented
C26_WitnessOverflow ==
    /\ UnrolledCombined /\ ty.bits = 16 /\ self = 65535
    /\ k2_candidate_of_shifted(self, 16) = 256
    /\ MulW(256, 256, 16) = 0
    /\ ret.v = 255

(***************************************************************************)
(* The calls of the half-width function with remainder.                    *)
(***************************************************************************)
\* A call of karatsuba_sqrt_with_remainder at width W (8 for the table) on hi,
\* and the calls below it: hi has at most one leading zero; above 8 bits the
\* precondition shift is 0, the branch `leading_zeros >= HALF_BITS` is not
\* taken and the pair returned is that of the step on hi itself; the pair is
\* the root and the remainder of hi
RECURSIVE NestedCallsNormalized(_, _)
NestedCallsNormalized(hi, W) ==
    /\ leading_zeros(hi, W) <= 1
    /\ RootAndRemainder(karatsuba_sqrt_with_remainder(hi, W)[1],
                        karatsuba_sqrt_with_remainder(hi, W)[2], hi)
    /\ W > 8 =>
           /\ karatsuba_precondition_shift(hi, W) = 0
           /\ leading_zeros(hi, W) < Shr(W, 1)
           /\ karatsuba_sqrt_with_remainder(hi, W)
                  = karatsuba_with_remainder_of_shifted(hi, W)
           /\ NestedCallsNormalized(karatsuba_hi(hi, W), Shr(W, 1))

\* The functions entered below the first are the functions with remainder of
\* the halved widths, down to 8 bits
NestedCallsHalve(cs) ==
    \A i \in 2..Len(cs) :
        cs[i].fn = "sqrt_with_remainder" /\ 2 * cs[i].bits = cs[i - 1].bits

\* The same on a word hi of W >= 16 bits
RECURSIVE WideNestedCallsNormalized(_, _)
WideNestedCallsNormalized(hi, W) ==
    IF W = 16 THEN NestedCallsNormalized(WToInt(hi), 16)
    ELSE /\ Wleading_zeros(hi) <= 1
         /\ wide_karatsuba_precondition_shift(hi, W) = 0
         /\ Wleading_zeros(hi) < Shr(W, 1)
         /\ WideRootAndRemainder(wide_karatsuba_sqrt_with_remainder(hi, W), hi)
         /\ wide_karatsuba_sqrt_with_remainder(hi, W)
                = wide_karatsuba_with_remainder_of_shifted(hi, W)
         /\ WideNestedCallsNormalized(wide_karatsuba_hi(hi, W), Shr(W, 1))

\* Words of u64 and u128, normalized or not, whose upper half is not zero
WideCallWords ==
    {WMAX(64), WideOneBit(32, 64), WideOneBit(33, 64), WideLowBits(37, 64),
     <<17, 34, 51, 200, 1, 2, 3, 4>>, WMAX(128), WideOneBit(64, 128), WideLowBits(100, 128)}

WideCallsNormalized ==
    \A n \in WideCallWords :
        WideNestedCallsNormalized(
            wide_karatsuba_hi(WShl(n, wide_karatsuba_precondition_shift(n, 8 * Len(n))),
                              8 * Len(n)),
            4 * Len(n))

\* The table of floating_point_and_karatsuba.rs on every hi with at most one
\* leading zero
PackedTableOnNormalized ==
    \A hi \in 64..255 :
        RootAndRemainder(fpk_karatsuba_isqrt_with_remainder_8(hi)[1],
                         fpk_karatsuba_isqrt_with_remainder_8(hi)[2], hi)

\* C27: every call the recursive Karatsuba engine makes to the half-width
\* function with remainder passes a high half hi with at most one leading
\* zero, so at every nested level the callee's precondition shift is 0, its
\* fits-in-lower-half branch is not taken, and the returned pair (s', r') is
\* unshifted and satisfies hi = s' * s' + r' with 0 <= r' <= 2s'.
C27_NestedCalls ==
    /\ KaratsubaCombined =>
           /\ NestedCallsNormalized(karatsuba_hi(KaratsubaShifted, ty.bits), Shr(ty.bits, 1))
           /\ NestedCallsHalve(calls)
           /\ calls[1] = [fn |-> "sqrt", bits |-> ty.bits]
           /\ calls[Len(calls)].bits = 8
    /\ (WithRemainderReturned /\ leading_zeros(self, 16) < 8) =>
           /\ NestedCallsNormalized(karatsuba_hi(KaratsubaShifted, 16), 8)
           /\ NestedCallsHalve(calls)
    /\ WideCallsNormalized
    /\ PackedTableOnNormalized

\* karatsuba_sqrt_32 on 65536: shifted by 14 to 2^30; karatsuba_sqrt_with_remainder_16
\* is called on 16384 and returns (128, 0), and it calls the 8-bit function on 64
C27_Witness ==
    /\ KaratsubaCombined /\ ty.bits = 32 /\ self = 65536
    /\ karatsuba_hi(KaratsubaShifted, 32) = 16384
    /\ karatsuba_sqrt_with_remainder(16384, 16) = <<128, 0>>
    /\ karatsuba_hi(16384, 16) = 64
    /\ calls = <<[fn |-> "sqrt", bits |-> 32], [fn |-> "sqrt_with_remainder", bits |-> 16],
                 [fn |-> "sqrt_with_remainder", bits |-> 8]>>
    /\ ret.v = 256

(***************************************************************************)
(* The packed table of floating_point_and_karatsuba.rs.                    *)
(***************************************************************************)
\* The entry for n holds the low three bits of the root of n in its top three
\* bits and the remainder, which is below 32, in its low five bits;
\* karatsuba_isqrt_with_remainder_8 returns the root and the remainder, the
\* pair of the tuple table of karatsuba.rs
PackedEntry(n) ==
    /\ FPK_ISQRT_AND_REMAINDER_8_BIT[n] \in 0..255
    /\ n - FloorSqrt(n) * FloorSqrt(n) < 32
    /\ Shr(FPK_ISQRT_AND_REMAINDER_8_BIT[n], 5) = FloorSqrt(n) % 8
    /\ FPK_ISQRT_AND_REMAINDER_8_BIT[n] % 32 = n - FloorSqrt(n) * FloorSqrt(n)
    /\ (n >= 64) <=> (FloorSqrt(n) >= 8)
    /\ fpk_karatsuba_isqrt_with_remainder_8(n)
           = <<FloorSqrt(n), n - FloorSqrt(n) * FloorSqrt(n)>>
    /\ fpk_karatsuba_isqrt_with_remainder_8(n) = ISQRT_AND_REMAINDER_8_BIT[n]

PackedTableEntries == \A n \in 0..255 : PackedEntry(n)

\* C29: each entry of the packed 8-bit table of floating_point_and_karatsuba.rs
\* stores the low three bits of the root in its top three bits and the
\* remainder (always < 32) in its low five bits, and
\* karatsuba_isqrt_with_remainder_8, which restores the root's fourth bit from
\* the test n >= 64, returns for every n in 0..255 the pair
\* (floor(sqrt(n)), n - floor(sqrt(n))^2), identical to the tuple table of
\* karatsuba.rs.
C29_PackedTable ==
    /\ PackedTableEntries
    /\ (ty.bits = 8 /\ self >= 0) => PackedEntry(self)
    /\ (pc = "done" /\ ~ty.signed /\ ty.bits = 8 /\ module = "karatsuba") =>
           ret.v = fpk_karatsuba_isqrt_with_remainder_8(self)[1]

\* 200 = 14 * 14 + 4: the entry is (14 % 8) * 32 + 4 = 196, and the fourth bit
\* of the root comes from 200 >= 64
C29_Witness ==
    /\ UnsignedReturned("karatsuba") /\ ty.bits = 8 /\ self = 200
    /\ FPK_ISQRT_AND_REMAINDER_8_BIT[self] = 196
    /\ fpk_karatsuba_isqrt_with_remainder_8(self) = <<14, 4>>
    /\ ret.v = 14

(***************************************************************************)
(* The construction of the 8-bit tables, one step of the loops at a time.  *)
(* The variables hold: module and method the file and the name of the      *)
(* table, self the length of the table, loop the variables sqrt, i and      *)
(* remaining of the block, ret the array `result`, iters the number of      *)
(* writes, calls the indices written, in the order of the writes, and pc   *)
(* the place in the block: "outer" at the top of `'outer: loop`, "inner"   *)
(* at the test of `while remaining > 0`, "built" after `break 'outer`,     *)
(* "panicked" after an overflow or a write outside the array.              *)
(***************************************************************************)
TableLen == 256

\* The tables built by the block `'outer: loop { .. }`
Tables ==
    {<<"karatsuba", "ISQRT_AND_REMAINDER_8_BIT">>,
     <<"floating_point_and_karatsuba", "ISQRT_8_BIT">>,
     <<"floating_point_and_karatsuba", "ISQRT_AND_REMAINDER_8_BIT">>}

\* `let mut result = [(0, 0); 256]` and `let mut result = [0; 256]`
table_blank(m, t) ==
    [n \in 0..(TableLen - 1) |-> IF m = "karatsuba" THEN <<0, 0>> ELSE 0]

\* The countdown with `2 * sqrt` for `2 * sqrt + 1`.
table_remaining_short(sqrt) == 2 * sqrt

\* `let mut remaining = 2 * sqrt + 1`
table_remaining(sqrt) == 2 * sqrt + 1

\* The value written at `result[i as usize] = ..`
table_entry(m, t, sqrt, remaining) ==
    IF m = "karatsuba" THEN <<sqrt, 2 * sqrt + 1 - remaining>>
    ELSE IF t = "ISQRT_8_BIT" THEN sqrt
    ELSE BitOr(Shl(sqrt, 5, 8), 2 * sqrt + 1 - remaining)

\* The table as the rest of the model reads it
table_constant(m, t) ==
    IF m = "karatsuba" THEN ISQRT_AND_REMAINDER_8_BIT
    ELSE IF t = "ISQRT_8_BIT" THEN FPK_ISQRT_8_BIT
    ELSE FPK_ISQRT_AND_REMAINDER_8_BIT

TableInit ==
    /\ ty = [bits |-> 8, signed |-> FALSE]
    /\ self = TableLen
    /\ \E tb \in Tables : module = tb[1] /\ method = tb[2]
    /\ pc = "outer"
    /\ loop = [sqrt |-> 0, i |-> 0, remaining |-> 0]
    /\ iters = 0
    /\ ret = table_blank(module, method)
    /\ calls = <<>>

\* `let mut remaining = 2 * sqrt + 1;` in u8
TableStartPass ==
    /\ pc = "outer"
    /\ pc' = IF table_remaining(loop.sqrt) > MAX(8) THEN "panicked" ELSE "inner"
    /\ loop' = [loop EXCEPT !.remaining = Wrap(table_remaining(loop.sqrt), 8)]
    /\ UNCHANGED <<ty, self, module, method, iters, ret, calls>>

\* One pass of `while remaining > 0`: the write, `i += 1`, the test with
\* `break 'outer`, `remaining -= 1`
TableWrite ==
    /\ pc = "inner"
    /\ loop.remaining > 0
    /\ IF loop.i \in DOMAIN ret
       THEN /\ ret' = [ret EXCEPT ![loop.i] =
                           table_entry(module, method, loop.sqrt, loop.remaining)]
            /\ calls' = Append(calls, loop.i)
            /\ iters' = iters + 1
            /\ IF loop.i + 1 >= self
               THEN /\ loop' = [loop EXCEPT !.i = loop.i + 1]
                    /\ pc' = "built"
               ELSE /\ loop' = [loop EXCEPT !.i = loop.i + 1,
                                            !.remaining = loop.remaining - 1]
                    /\ pc' = "inner"
       ELSE /\ pc' = "panicked"
            /\ UNCHANGED <<loop, ret, calls, iters>>
    /\ UNCHANGED <<ty, self, module, method>>

\* The inner loop ends at remaining = 0: `sqrt += 1;` in u8
TableNextRoot ==
    /\ pc = "inner"
    /\ loop.remaining = 0
    /\ pc' = IF loop.sqrt + 1 > MAX(8) THEN "panicked" ELSE "outer"
    /\ loop' = [loop EXCEPT !.sqrt = Wrap(loop.sqrt + 1, 8)]
    /\ UNCHANGED <<ty, self, module, method, iters, ret, calls>>

TableNext ==
    \/ TableStartPass
    \/ TableWrite
    \/ TableNextRoot

TableSpec == TableInit /\ [][TableNext]_vars

\* At the test of the inner loop the next index i is root^2 + (2 root + 1 -
\* remaining); at the top of the outer loop it is root^2.  The root is at most
\* 15 and 2 * root + 1 at most 31.  The indices written so far are 0, 1, ..,
\* i - 1 in this order, no write is outside the table, and the block is left
\* exactly when i is 256, with the table that the engines read.
TableLoopStates ==
    /\ pc \in {"outer", "inner", "built"}
    /\ pc = "inner" =>
           /\ loop.remaining \in 0..(2 * loop.sqrt + 1)
           /\ loop.i = loop.sqrt * loop.sqrt + (2 * loop.sqrt + 1 - loop.remaining)
    /\ pc = "outer" => loop.i = loop.sqrt * loop.sqrt
    /\ loop.sqrt <= 15
    /\ table_remaining(loop.sqrt) <= 31
    /\ Len(calls) = loop.i /\ iters = loop.i
    /\ \A k \in 1..Len(calls) : calls[k] = k - 1
    /\ loop.i <= TableLen
    /\ (loop.i = TableLen) <=> (pc = "built")
    /\ \A n \in 0..(loop.i - 1) : ret[n] = table_constant(module, method)[n]
    /\ \A n \in loop.i..(TableLen - 1) : ret[n] = table_blank(module, method)[n]
    /\ pc = "built" => ret = table_constant(module, method)

\* A step changes the root only at remaining = 0, and by one
TableRootSteps ==
    loop'.sqrt # loop.sqrt =>
        pc = "inner" /\ loop.remaining = 0 /\ loop'.sqrt = loop.sqrt + 1

\* C30: in the table construction loop, starting from root 0 with a countdown
\* of 2 * root + 1, in every reachable state the next index i equals
\* root * root + (2 * root + 1 - remaining), the root is incremented only when
\* the countdown reaches zero, indices 0..255 are each written exactly once in
\* increasing order, the loop stops as soon as i reaches 256 without writing
\* outside the table, and root never exceeds 15 so 2 * root + 1 fits in 8 bits.
C30_TableConstruction == []TableLoopStates /\ [][TableRootSteps]_vars

\* The tuple table of karatsuba.rs after its last write, at index 255
C30_Witness ==
    /\ module = "karatsuba" /\ pc = "built"
    /\ loop = [sqrt |-> 15, i |-> 256, remaining |-> 1]
    /\ ret[255] = <<15, 30>>
    /\ calls[256] = 255 /\ iters = 256

\* The root incremented from 3 to 4 at the index 16
C30_WitnessRoot ==
    /\ module = "floating_point_and_karatsuba" /\ method = "ISQRT_8_BIT" /\ pc = "outer"
    /\ loop = [sqrt |-> 4, i |-> 16, remaining |-> 0]
    /\ ret[15] = 3

(***************************************************************************)
(* floating_point.rs and the floating-point functions of                   *)
(* floating_point_and_karatsuba.rs.  A finite f32 or f64 that holds an     *)
(* integer or the square root of one is modelled by its exact value: an    *)
(* integer x as a word, a square root as the pair of a mantissa m and a    *)
(* scale t with value m / 2^t.  The conversions round as IEEE 754 does:    *)
(* to the nearest value of p significant bits (24 in f32, 53 in f64), ties *)
(* to the even mantissa.                                                   *)
(***************************************************************************)
\* The width of the words that hold a float's integer value and mantissa
fp_word(p) == IF p = 24 THEN 64 ELSE 128

\* Rounding x to the nearest multiple of 2^k, given q = x >> k: up when the
\* dropped bits are above half, or are half and q is odd
fp_round_up(low, half, q) == WLess(half, low) \/ (low = half /\ WBit(q, 0) = 1)
fp_round(x, k, q) ==
    IF x # <<>> /\ q # <<>>
    THEN IF fp_round_up(WSub(x, WShl(q, k)), WideOneBit(k - 1, 8 * Len(x)), q)
         THEN WShl(WAdd(q, WOne(8 * Len(x))), k)
         ELSE WShl(q, k)
    ELSE x

\* `n as f32` (p = 24), `n as f64` (p = 53): the value of the float
fp_from_uint_word(x, p) ==
    IF x # <<>>
    THEN IF WBitLen(x) <= p THEN x
         ELSE fp_round(x, WBitLen(x) - p, WShr(x, WBitLen(x) - p))
    ELSE x
fp_from_uint(n, p) == fp_from_uint_word(WAs(n, fp_word(p)), p)

\* `.sqrt()`: the correctly rounded square root of x is m / 2^t, where t puts
\* the root of x * 4^t at p significant bits and m is that root rounded to the
\* nearest integer (it is never half way between two)
fp_sqrt_scale(x, p) == (2 * p - WBitLen(x)) \div 2
fp_sqrt_round(scaled, floor) ==
    IF scaled # <<>> /\ floor # <<>>
    THEN IF WLess(floor, WSub(scaled, WMul(floor, floor)))
         THEN WAdd(floor, WOne(8 * Len(floor)))
         ELSE floor
    ELSE floor
fp_sqrt_of_scaled(scaled) ==
    IF scaled # <<>> THEN fp_sqrt_round(scaled, wide_original_isqrt(scaled)) ELSE scaled
fp_sqrt_mantissa(x, p) == fp_sqrt_of_scaled(WShl(x, 2 * fp_sqrt_scale(x, p)))

\* `as uW` of the float m / 2^t: truncation toward zero, saturating at uW::MAX
fp_to_uint_of(truncated, W) ==
    IF truncated # <<>>
    THEN IF WIsZero(WShr(truncated, W)) THEN WAs(truncated, W) ELSE WMAX(W)
    ELSE truncated
fp_to_uint(m, t, W) == fp_to_uint_of(WShr(m, t), W)

\* `(self as fN).sqrt() as Self` on the word n
fp_sqrt_as_uint(x, p, W) ==
    IF x # <<>>
    THEN fp_to_uint(fp_sqrt_mantissa(x, p), fp_sqrt_scale(x, p), W)
    ELSE x
fp_isqrt_candidate(n, p) == fp_sqrt_as_uint(fp_from_uint(n, p), p, 8 * Len(n))

\* u32 through f32 as well
fp_small_isqrt_f32(n) == fp_isqrt_candidate(n, 24)

\* floating_point.rs, UnsignedIsqrt for u8, u16 (f32) and u32 (f64)
fp_small_isqrt(n) == fp_isqrt_candidate(n, IF Len(n) <= 2 THEN 24 ELSE 53)

\* `intrinsics::assume(result < 1 << ((Self::BITS as Self) >> 1))`
fp_assume(result) == WIsZero(WShr(result, 4 * Len(result)))

\* The squares compared as wrapping_mul leaves them
fp_u64_correction_wrapping(n, result) ==
    IF WLess(n, WMul(result, result))
    THEN WSub(result, WOne(64))
    ELSE IF ~WLess(n, WMul(WAdd(result, WOne(64)), WAdd(result, WOne(64))))
    THEN WAdd(result, WOne(64))
    ELSE result

\* floating_point.rs, UnsignedIsqrt for u64: `x.checked_mul(x)` is Some of a
\* value that compares with self
fp_checked_square_exceeds(x, n) == WMulOverflows(x, x) \/ WLess(n, WMul(x, x))
fp_u64_correction(n, result) ==
    IF result # <<>>
    THEN IF fp_checked_square_exceeds(result, n)
         THEN WSub(result, WOne(64))
         ELSE IF ~fp_checked_square_exceeds(WAdd(result, WOne(64)), n)
         THEN WAdd(result, WOne(64))
         ELSE result
    ELSE result
fp_u64_isqrt(n) == fp_u64_correction(n, fp_isqrt_candidate(n, 53))

\* The step without `if .. < q * q { s -= 1; }`
fp_u128_step_no_decrement(shifted, hi, s_prime) ==
    wide_karatsuba_candidate(
        s_prime,
        WQuotient(wide_karatsuba_division(wide_karatsuba_lo(shifted, 128), s_prime,
                                          WSub(hi, WMul(s_prime, s_prime)), 128)),
        128)

\* floating_point.rs, UnsignedIsqrt for u128: the else branch on the shifted
\* n, given s' = hi.isqrt()
fp_u128_step(shifted, hi, s_prime) ==
    IF s_prime # <<>>
    THEN wide_karatsuba_step(shifted, <<s_prime, WSub(hi, WMul(s_prime, s_prime))>>, 128)
    ELSE s_prime
fp_u128_of_shifted(shifted, precondition_shift) ==
    IF shifted # <<>>
    THEN WShr(fp_u128_step(shifted, wide_karatsuba_hi(shifted, 128),
                           fp_u64_isqrt(wide_karatsuba_hi(shifted, 128))),
              Shr(precondition_shift, 1))
    ELSE shifted
fp_u128_isqrt(n) ==
    IF Wleading_zeros(n) >= 64
    THEN WAs(fp_u64_isqrt(WAs(n, 64)), 128)
    ELSE fp_u128_of_shifted(WShl(n, wide_karatsuba_precondition_shift(n, 128)),
                            wide_karatsuba_precondition_shift(n, 128))

\* floating_point_and_karatsuba.rs: floating_isqrt_8, _16 (f32) and _32 (f64)
fpk_floating_isqrt_small(n) == fp_isqrt_candidate(n, IF Len(n) <= 2 THEN 24 ELSE 53)

\* No guard below u64::MAX
fpk_guard_high(j) == WMAX(64)

\* floating_isqrt_64: `((1 << 32) - 2) * ((1 << 32) - 2)` and
\* `((1 << 32) - 1) * ((1 << 32) - 1)` in u64
fpk_guard(j) ==
    WMul(WSub(WideOneBit(32, 64), WFromInt(j, 64)),
         WSub(WideOneBit(32, 64), WFromInt(j, 64)))

\* The three-way comparison on `result` and `result_squared`
fpk_three_way(n, result, result_squared) ==
    IF result # <<>> /\ result_squared # <<>>
    THEN IF WLess(n, result_squared)
         THEN WSub(result, WOne(64))
         ELSE IF WLess(n, WAdd(WAdd(result_squared, WShl(result, 1)), WOne(64)))
         THEN result
         ELSE WAdd(result, WOne(64))
    ELSE result
fpk_floating_isqrt_64_of(n, result) ==
    IF result # <<>> THEN fpk_three_way(n, result, WMul(result, result)) ELSE result
fpk_floating_isqrt_64(n) ==
    IF WLess(n, fpk_guard(2))
    THEN fpk_floating_isqrt_64_of(n, fp_isqrt_candidate(n, 53))
    ELSE IF WLess(n, fpk_guard(1))
    THEN WSub(WideOneBit(32, 64), WFromInt(2, 64))
    ELSE WSub(WideOneBit(32, 64), WFromInt(1, 64))

\* floating_isqrt_128
fpk_floating_128_of_shifted(shifted, precondition_shift) ==
    IF shifted # <<>>
    THEN WShr(fp_u128_step(shifted, wide_karatsuba_hi(shifted, 128),
                           fpk_floating_isqrt_64(wide_karatsuba_hi(shifted, 128))),
              Shr(precondition_shift, 1))
    ELSE shifted
fpk_floating_isqrt_128(n) ==
    IF Wleading_zeros(n) >= 64
    THEN WAs(fpk_floating_isqrt_64(WAs(n, 64)), 128)
    ELSE fpk_floating_128_of_shifted(
             WShl(n, wide_karatsuba_precondition_shift(n, 128)),
             wide_karatsuba_precondition_shift(n, 128))

(***************************************************************************)
(* The calls of the floating-point engines: self and the results are words *)
(* of the width of the type.                                               *)
(***************************************************************************)
FloatModules == {"floating_point", "floating_point_and_karatsuba"}
FloatWidths == {8, 16, 32, 64, 128}

\* The roots 1..FloatSquares and the FloatSquares highest roots of 16 bits
FloatSquares == 128
FloatRoots16 == (1..FloatSquares) \cup ((MAX(8) - FloatSquares + 1)..MAX(8))

\* Roots of 32 and of 64 bits, as words of that width: the lowest, those at
\* which f64 stops being exact, and the highest
FloatRoots32 ==
    {WFromInt(k, 32) : k \in {1, 2, 3, 255, 256, 4095, 4096, 46340, 46341, 65534, 65535}}
FloatRoots64 ==
    {WFromInt(k, 64) : k \in {1, 2, 3, 65536, 67108864, 67108865, 94906265, 94906266,
                              94906267, 2147483647}}
        \cup {WSub(WideOneBit(32, 64), WFromInt(j, 64)) : j \in 1..4}
        \cup {WideOneBit(31, 64), <<51, 243, 4, 181, 0, 0, 0, 0>>}
FloatRoots128 ==
    {WAs(WMAX(64), 128), WideOneBit(63, 128), WideOneBit(32, 128),
     WAs(<<51, 243, 4, 181, 7, 9, 200, 255>>, 128),
     WAs(<<1, 0, 0, 0, 0, 0, 0, 128>>, 128),
     WAs(<<205, 59, 127, 102, 158, 160, 230, 181>>, 128)}

\* k^2 - 1, k^2, k^2 + 1 and (k + 1)^2 - 1 for the root k
FloatAround(k) ==
    {WSub(WMul(k, k), WOne(8 * Len(k))), WMul(k, k), WAdd(WMul(k, k), WOne(8 * Len(k))),
     WAdd(WMul(k, k), WShl(k, 1))}

FloatInputs(W) ==
    IF W = 8 THEN {WFromInt(n, 8) : n \in 0..MAX(8)}
    ELSE IF W = 16
    THEN {WFromInt(k * k - d, 16) : k \in FloatRoots16, d \in {0, 1}}
             \cup {WFromInt(0, 16), WMAX(16)}
    ELSE IF W = 32
    THEN UNION {FloatAround(k) : k \in FloatRoots32}
             \cup {WFromInt(0, 32), WMAX(32), WideOneBit(31, 32), WideLowBits(24, 32)}
    ELSE IF W = 64
    THEN UNION {FloatAround(k) : k \in FloatRoots64}
             \cup {WFromInt(0, 64), WMAX(64), WideOneBit(63, 64),
                   WAdd(WideOneBit(53, 64), WOne(64)), WideLowBits(52, 64),
                   WSub(WMAX(64), WFromInt(1023, 64)), WSub(WMAX(64), WFromInt(1024, 64))}
    ELSE UNION {FloatAround(k) : k \in FloatRoots128}
             \cup {WAs(n, 128) : n \in FloatAround(WFromInt(94906266, 64))}
             \cup {WAs(n, 128) : n \in FloatAround(WMAX(32) \o <<0, 0, 0, 0>>)}
             \cup {WFromInt(0, 128), WFromInt(5, 128), WMAX(128), WAs(WMAX(64), 128),
                   WideOneBit(64, 128), WideOneBit(65, 128), WideOneBit(126, 128),
                   WideOneBit(127, 128), WideLowBits(100, 128), WideLowBits(125, 128)}

\* The locals before `result` is bound
NoResult == [result |-> <<>>]

FloatInit ==
    /\ ty \in [bits : FloatWidths, signed : {FALSE}]
    /\ self \in FloatInputs(ty.bits)
    /\ module \in FloatModules
    /\ method = "isqrt"
    /\ pc = "call"
    /\ loop = NoResult
    /\ iters = 0
    /\ ret = Pending
    /\ calls = <<>>

\* The function returns result, after the assume where there is one
FloatReturn(result, assumed) ==
    /\ ret' = Value(result)
    /\ pc' = IF assumed => fp_assume(result) THEN "done" ELSE "undefined"

\* floating_point.rs, UnsignedIsqrt for u8, u16, u32
FloatingPointSmall ==
    /\ pc = "call" /\ module = "floating_point" /\ ty.bits <= 32
    /\ loop' = [result |-> fp_small_isqrt(self)]
    /\ FloatReturn(fp_small_isqrt(self), TRUE)
    /\ UNCHANGED <<ty, self, module, method, iters, calls>>

\* UnsignedIsqrt for u64: `let result = (self as f64).sqrt() as Self;`
FloatingPointCandidate ==
    /\ pc = "call" /\ module = "floating_point" /\ ty.bits = 64
    /\ loop' = [result |-> fp_isqrt_candidate(self, 53)]
    /\ pc' = "candidate"
    /\ UNCHANGED <<ty, self, module, method, iters, ret, calls>>

\* UnsignedIsqrt for u64: the match on `result.checked_mul(result)`
FloatingPointCorrection ==
    /\ pc = "candidate" /\ module = "floating_point"
    /\ FloatReturn(fp_u64_correction(self, loop.result), TRUE)
    /\ UNCHANGED <<ty, self, module, method, loop, iters, calls>>

\* UnsignedIsqrt for u128; calls holds the argument of the 64-bit isqrt
FloatingPointWide ==
    /\ pc = "call" /\ module = "floating_point" /\ ty.bits = 128
    /\ calls' = IF Wleading_zeros(self) >= 64
                THEN <<WAs(self, 64)>>
                ELSE <<wide_karatsuba_hi(
                           WShl(self, wide_karatsuba_precondition_shift(self, 128)), 128)>>
    /\ loop' = [result |-> fp_u128_isqrt(self)]
    /\ FloatReturn(fp_u128_isqrt(self), TRUE)
    /\ UNCHANGED <<ty, self, module, method, iters>>

\* floating_point_and_karatsuba.rs: floating_isqrt_8, _16, _32
FpkFloatingSmall ==
    /\ pc = "call" /\ module = "floating_point_and_karatsuba" /\ ty.bits <= 32
    /\ loop' = [result |-> fpk_floating_isqrt_small(self)]
    /\ FloatReturn(fpk_floating_isqrt_small(self), FALSE)
    /\ UNCHANGED <<ty, self, module, method, iters, calls>>

\* floating_isqrt_64: the guard; below it `result` is bound to the candidate
\* (`to_int_unchecked` on a root that is below 2^32: the truncation)
FpkFloatingGuard ==
    /\ pc = "call" /\ module = "floating_point_and_karatsuba" /\ ty.bits = 64
    /\ IF WLess(self, fpk_guard(2))
       THEN /\ loop' = [result |-> fp_isqrt_candidate(self, 53)]
            /\ pc' = "candidate"
            /\ UNCHANGED ret
       ELSE /\ FloatReturn(fpk_floating_isqrt_64(self), FALSE)
            /\ UNCHANGED loop
    /\ UNCHANGED <<ty, self, module, method, iters, calls>>

\* floating_isqrt_64: the three-way comparison
FpkFloatingThreeWay ==
    /\ pc = "candidate" /\ module = "floating_point_and_karatsuba"
    /\ FloatReturn(fpk_floating_isqrt_64_of(self, loop.result), FALSE)
    /\ UNCHANGED <<ty, self, module, method, loop, iters, calls>>

\* floating_isqrt_128
FpkFloatingWide ==
    /\ pc = "call" /\ module = "floating_point_and_karatsuba" /\ ty.bits = 128
    /\ calls' = IF Wleading_zeros(self) >= 64
                THEN <<WAs(self, 64)>>
                ELSE <<wide_karatsuba_hi(
                           WShl(self, wide_karatsuba_precondition_shift(self, 128)), 128)>>
    /\ FloatReturn(fpk_floating_isqrt_128(self), FALSE)
    /\ UNCHANGED <<ty, self, module, method, loop, iters>>

FloatNext ==
    \/ FloatingPointSmall
    \/ FloatingPointCandidate
    \/ FloatingPointCorrection
    \/ FloatingPointWide
    \/ FpkFloatingSmall
    \/ FpkFloatingGuard
    \/ FpkFloatingThreeWay
    \/ FpkFloatingWide

FloatSpec == FloatInit /\ [][FloatNext]_vars

\* n is a word, r a word of the same width: r * r <= n < (r + 1) * (r + 1),
\* the squares taken without wrapping
WideBracketed(r, n) ==
    /\ ~WMulOverflows(r, r)
    /\ ~WLess(n, WMul(r, r))
    /\ \/ r = WMAX(8 * Len(r))
       \/ WMulOverflows(WAdd(r, WOne(8 * Len(r))), WAdd(r, WOne(8 * Len(r))))
       \/ WLess(n, WMul(WAdd(r, WOne(8 * Len(r))), WAdd(r, WOne(8 * Len(r)))))

FloatTypeOK ==
    /\ pc \in {"call", "candidate", "done"}
    /\ pc = "done" => ret.kind = "value" /\ WideBracketed(ret.v, self)

\* The mantissa of the float that the small widths are converted to
FloatDigits(W) == IF W <= 16 THEN 24 ELSE 53

\* C23: in floating_point.rs, for every u8 and u16 n converted to f32 and every
\* u32 n converted to f64, the conversion is exact and the truncated hardware
\* square root is returned as it is, with no correction step, and is
\* floor(sqrt(n)): its square is at most n and the next square is above n.
C23_UncorrectedSmallWidths ==
    (pc = "done" /\ module = "floating_point" /\ ty.bits <= 32) =>
        /\ loop.result # <<>>
        /\ fp_from_uint(self, FloatDigits(ty.bits)) = WAs(self, fp_word(FloatDigits(ty.bits)))
        /\ ret = Value(loop.result)
        /\ WideBracketed(ret.v, self)
        /\ fp_assume(ret.v)
        /\ ty.bits <= 16 => WToInt(ret.v) = FloorSqrt(WToInt(self))
        /\ ty.bits = 32 => ret.v = wide_original_isqrt(self)

\* u32::MAX through f64: 65535
C23_Witness ==
    /\ pc = "done" /\ module = "floating_point" /\ ty.bits = 32
    /\ self = WMAX(32) /\ ret.v = <<255, 255, 0, 0>> /\ loop.result = ret.v

\* 255 * 255 - 1 as u16 through f32: 254
C23_WitnessF32 ==
    /\ pc = "done" /\ module = "floating_point" /\ ty.bits = 16
    /\ self = WFromInt(65024, 16) /\ ret.v = WFromInt(254, 16)

\* The candidates within one of the root r: r - 1 (not below 0), r, r + 1
FloatCandidates(r) ==
    {r, WAdd(r, WOne(8 * Len(r)))}
        \cup (IF WIsZero(r) THEN {} ELSE {WSub(r, WOne(8 * Len(r)))})

\* The pass on the candidate c for n, by the three cases of the claim
FloatCorrectionCases(n, c) ==
    IF WMulOverflows(c, c) \/ WLess(n, WMul(c, c))
    THEN fp_u64_correction(n, c) = WSub(c, WOne(64))
    ELSE IF /\ ~WMulOverflows(WAdd(c, WOne(64)), WAdd(c, WOne(64)))
            /\ ~WLess(n, WMul(WAdd(c, WOne(64)), WAdd(c, WOne(64))))
    THEN fp_u64_correction(n, c) = WAdd(c, WOne(64))
    ELSE fp_u64_correction(n, c) = c

\* C21: in the u64 isqrt of floating_point.rs the value returned for n is
\* floor(sqrt(n)), the candidate of the float square root is within one of
\* it, and from every candidate c within one of floor(sqrt(n)) the correction
\* pass returns floor(sqrt(n)): c - 1 when c * c overflows or exceeds n, c + 1
\* when (c + 1) * (c + 1) does not overflow and is at most n, c otherwise.
C21_CorrectionPass ==
    /\ pc # "undefined"
    /\ (pc = "done" /\ module = "floating_point" /\ ty.bits = 64) =>
           /\ WideBracketed(ret.v, self)
           /\ loop.result \in FloatCandidates(ret.v)
           /\ \A c \in FloatCandidates(ret.v) :
                  /\ fp_u64_correction(self, c) = ret.v
                  /\ FloatCorrectionCases(self, c)

\* u64::MAX: the candidate is 2^32, whose square overflows (and wraps to 0,
\* which is not above n); the pass returns 2^32 - 1
C21_Witness ==
    /\ pc = "done" /\ module = "floating_point" /\ ty.bits = 64
    /\ self = WMAX(64)
    /\ loop.result = WideOneBit(32, 64)
    /\ WMulOverflows(loop.result, loop.result)
    /\ WIsZero(WMul(loop.result, loop.result))
    /\ ret.v = WAs(WMAX(32), 64)

\* 67108865^2 - 1, above 2^53: the candidate is 67108865, whose square exceeds n
C21_WitnessAbove ==
    /\ pc = "done" /\ module = "floating_point" /\ ty.bits = 64
    /\ self = WSub(WMul(WFromInt(67108865, 64), WFromInt(67108865, 64)), WOne(64))
    /\ loop.result = WFromInt(67108865, 64)
    /\ ret.v = WFromInt(67108864, 64)

\* `result * result` and `result_squared + (result << 1) + 1` on the candidate
\* c stay below 2^64: the sum is taken in 128 bits
FloatThreeWayFits(c) ==
    /\ ~WMulOverflows(c, c)
    /\ WIsZero(WShr(WAdd(WAdd(WMul(WAs(c, 128), WAs(c, 128)), WShl(WAs(c, 128), 1)),
                         WOne(128)), 64))

\* `result - 1` is taken on the candidate c only when c is not 0
FloatDecrementFits(n, c) == WLess(n, WMul(c, c)) => ~WIsZero(c)

\* C28: floating_isqrt_64 returns floor(sqrt(n)).  For n >= (2^32 - 2)^2 it
\* takes no float and returns 2^32 - 2 when n < (2^32 - 1)^2 and 2^32 - 1
\* otherwise.  For n < (2^32 - 2)^2 the float candidate is within one of
\* floor(sqrt(n)), and on every candidate within one of it result * result
\* and result * result + 2 * result + 1 do not overflow 64 bits, result - 1
\* does not underflow and the three-way comparison returns floor(sqrt(n)).
\* The two guards are 2^64 - 2^34 + 4 and 2^64 - 2^33 + 1.
C28_OverflowGuard ==
    /\ (pc = "done" /\ module = "floating_point_and_karatsuba" /\ ty.bits = 64) =>
           /\ WideBracketed(ret.v, self)
           /\ ~WLess(self, <<4, 0, 0, 0, 252, 255, 255, 255>>) =>
                  /\ loop = NoResult
                  /\ ret.v = IF WLess(self, <<1, 0, 0, 0, 254, 255, 255, 255>>)
                             THEN <<254, 255, 255, 255, 0, 0, 0, 0>>
                             ELSE <<255, 255, 255, 255, 0, 0, 0, 0>>
           /\ WLess(self, <<4, 0, 0, 0, 252, 255, 255, 255>>) =>
                  /\ loop.result \in FloatCandidates(ret.v)
                  /\ \A c \in FloatCandidates(ret.v) :
                         /\ FloatThreeWayFits(c)
                         /\ FloatDecrementFits(self, c)
                         /\ fpk_floating_isqrt_64_of(self, c) = ret.v
    /\ fpk_guard(2) = <<4, 0, 0, 0, 252, 255, 255, 255>>
    /\ fpk_guard(1) = <<1, 0, 0, 0, 254, 255, 255, 255>>

\* (2^32 - 1)^2 - 1, above the first guard: 2^32 - 2 without a float
C28_Witness ==
    /\ pc = "done" /\ module = "floating_point_and_karatsuba" /\ ty.bits = 64
    /\ self = <<0, 0, 0, 0, 254, 255, 255, 255>>
    /\ loop = NoResult
    /\ ret.v = <<254, 255, 255, 255, 0, 0, 0, 0>>

\* (2^32 - 2)^2 - 1, the last n below the guard: the candidate is 2^32 - 2,
\* one above the root
C28_WitnessBelow ==
    /\ pc = "done" /\ module = "floating_point_and_karatsuba" /\ ty.bits = 64
    /\ self = <<3, 0, 0, 0, 252, 255, 255, 255>>
    /\ loop.result = <<254, 255, 255, 255, 0, 0, 0, 0>>
    /\ ret.v = <<253, 255, 255, 255, 0, 0, 0, 0>>

\* u64::MAX, above both guards
C28_WitnessMax ==
    /\ pc = "done" /\ module = "floating_point_and_karatsuba" /\ ty.bits = 64
    /\ self = WMAX(64) /\ ret.v = WAs(WMAX(32), 64)

\* The 64-bit isqrt that the 128-bit function of module m calls
FloatHalfIsqrt(m, n) ==
    IF m = "floating_point" THEN fp_u64_isqrt(n) ELSE fpk_floating_isqrt_64(n)

\* The step on the shifted n with high half hi and s' = s_prime: s' * s' does
\* not overflow 64 bits, hi - s' * s' does not underflow, the step gives the
\* floor square root of the shifted n
FloatStepHolds(shifted, hi, s_prime) ==
    /\ ~WMulOverflows(s_prime, s_prime)
    /\ ~WLess(hi, WMul(s_prime, s_prime))
    /\ WideBracketed(fp_u128_step(shifted, hi, s_prime), shifted)

\* C22: in the u128 isqrt of floating_point.rs and in floating_isqrt_128, for
\* n with fewer than 64 leading zeros the 64-bit isqrt is called on the high
\* half of the shifted n, where it is exact, and with s' its result s' * s'
\* does not overflow 64 bits, hi - s' * s' does not underflow, and the single
\* Karatsuba step, shifted back, is floor(sqrt(n)); for n with at least 64
\* leading zeros the result is that of the 64-bit function on n.
C22_WideStep ==
    (pc = "done" /\ ty.bits = 128) =>
        /\ WideBracketed(ret.v, self)
        /\ Len(calls) = 1
        /\ Wleading_zeros(self) >= 64 =>
               /\ calls[1] = WAs(self, 64)
               /\ ret.v = WAs(FloatHalfIsqrt(module, calls[1]), 128)
        /\ Wleading_zeros(self) < 64 =>
               /\ calls[1] = wide_karatsuba_hi(WideNormalized(self), 128)
               /\ Wleading_zeros(calls[1]) <= 1
               /\ FloatHalfIsqrt(module, calls[1]) = wide_original_isqrt(calls[1])
               /\ FloatStepHolds(WideNormalized(self), calls[1],
                                 wide_original_isqrt(calls[1]))
               /\ ret.v = WShr(fp_u128_step(WideNormalized(self), calls[1],
                                            wide_original_isqrt(calls[1])),
                               Shr(Wleading_zeros(self), 1))

\* (2^64 - 1)^2 - 1: the high half is 2^64 - 2, s' is 2^32 - 1, the result
\* 2^64 - 2
C22_Witness ==
    /\ pc = "done" /\ ty.bits = 128 /\ module = "floating_point"
    /\ self = WSub(WMul(WAs(WMAX(64), 128), WAs(WMAX(64), 128)), WOne(128))
    /\ calls = << <<254, 255, 255, 255, 255, 255, 255, 255>> >>
    /\ fp_u64_isqrt(calls[1]) = WAs(WMAX(32), 64)
    /\ ret.v = WSub(WAs(WMAX(64), 128), WOne(128))

\* 2^65 in floating_isqrt_128: shifted left by 62, the root shifted right by 31
C22_WitnessShifted ==
    /\ pc = "done" /\ ty.bits = 128 /\ module = "floating_point_and_karatsuba"
    /\ self = WideOneBit(65, 128)
    /\ calls = <<WideOneBit(63, 64)>>
    /\ ret.v = <<103, 230, 9, 106, 1, 0, 0, 0, 0, 0, 0, 0, 0, 0, 0, 0>>

\* u64::MAX as u128: the 64-bit function on n
C22_WitnessHalf ==
    /\ pc = "done" /\ ty.bits = 128 /\ module = "floating_point"
    /\ self = WAs(WMAX(64), 128)
    /\ calls = <<WMAX(64)>>
    /\ ret.v = WAs(WMAX(32), 128)

====
